---- MODULE Spec2Model ----
(***************************************************************************)
(* Hotspot search, cache tier and clustering engine of the unalone         *)
(* backend (internal/services/hotspot.go, geospatial.go, redis.go and      *)
(* internal/handlers/hotspot.go).                                          *)
(*                                                                         *)
(* Units.  Coordinates are integers counting 1e-5 degree ("ticks"), so     *)
(* that the 4-decimal rounding of the cache and grid keys is a real        *)
(* rounding (to 10 ticks).  Distances and radii are integers counting      *)
(* metres; the 1-decimal rounding of a radius in km is a rounding to       *)
(* 100 m.  Grid sizes are in ticks (the code uses the "km" grid size as a  *)
(* number of degrees).                                                     *)
(***************************************************************************)
EXTENDS Integers, Sequences, FiniteSets, TLC

VARIABLES
    mockHotspots,    \* hotspot.go:309  map[string]*models.Hotspot
    nextID,          \* number of uuid.New() identifiers handed out so far
    redisAvailable,  \* redis.go:72     rs.client != nil
    regionCache,     \* redis keys "hotspots:region:..."   (key -> payload)
    clusterCache,    \* redis keys "hotspots:clusters:..." (key -> payload)
    geoIndex,        \* redis sorted set "hotspots:geo"    (id -> location)
    resp,            \* the response of the last operation
    pages,           \* the pages fetched so far for one fixed direct query
    covered,         \* region/cluster key -> hotspots inside the query when it was cached
    clIn,            \* clustering engine: input list, configuration, zoom
    clOut,           \* clustering engine: the clusters of the last run
    km,              \* k-means: the position of the run inside the loop
    rooms,           \* handlers/chat.go:40  hotspotID -> client -> queue of client.send
    mockChatMessages,\* services/chat.go:96 hotspotID -> messages
    joins            \* JoinHotspot calls in progress: user -> position and locals

storeVars == <<mockHotspots, nextID>>
cacheVars == <<redisAvailable, regionCache, clusterCache, geoIndex, covered>>
sysVars   == <<mockHotspots, nextID, redisAvailable, regionCache, clusterCache,
               geoIndex, resp, pages, covered>>
engVars   == <<clIn, clOut, km>>
liveVars  == <<rooms, mockChatMessages, joins>>
vars      == <<mockHotspots, nextID, redisAvailable, regionCache, clusterCache,
               geoIndex, resp, pages, covered, clIn, clOut, km,
               rooms, mockChatMessages, joins>>

----------------------------------------------------------------------------
(* Bounds of the model *)

MaxHotspots == 2      \* hotspots created in one behaviour
MaxPoints   == 3      \* length of a clustering input list
KMeansPoints == 6     \* length of the enumerated k-means input lists
MaxPage     == 1      \* page sizes n and m of the paging client
MaxEntries  == 2      \* number of entries the cache tier holds on its own

----------------------------------------------------------------------------
(* Small helpers *)

None == [none |-> TRUE]

Abs(x) == IF x < 0 THEN 0 - x ELSE x

Min2(a, b) == IF a < b THEN a ELSE b

RECURSIVE IsqrtIn(_, _, _)
IsqrtIn(n, lo, hi) ==
    IF lo >= hi THEN lo
    ELSE LET mid == (lo + hi + 1) \div 2
         IN  IF mid * mid <= n THEN IsqrtIn(n, mid, hi) ELSE IsqrtIn(n, lo, mid - 1)

\* floor of the square root, for 0 <= n < 2^31
Isqrt(n) == IsqrtIn(n, 0, 46340)

Range(s) == {s[i] : i \in 1..Len(s)}

\* all orderings of a finite set, as sequences without repetition
Orderings(S) ==
    {s \in [1..Cardinality(S) -> S] : \A i, j \in 1..Cardinality(S) : i # j => s[i] # s[j]}

\* math.Floor(x / g) * g on integers (TLA+ \div already rounds toward minus infinity)
FloorTo(x, g) == (x \div g) * g

\* fmt.Sprintf("%.4f", x): x in ticks of 1e-5 degree, rounded to the nearest 1e-4
Round4(x) == IF x >= 0 THEN ((x + 5) \div 10) * 10 ELSE 0 - (((0 - x) + 5) \div 10) * 10

\* fmt.Sprintf("%.1f", r): r in metres, rounded to the nearest 0.1 km
Round1(r) == IF r >= 0 THEN ((r + 50) \div 100) * 100 ELSE 0 - (((0 - r) + 50) \div 100) * 100

----------------------------------------------------------------------------
(* Distance/Geometry utility *)

\* Haversine distance with R = 6371 km, in metres.  One tick of 1e-5 degree
\* of arc is 6371000 * pi / 180 * 1e-5 = 1.1119 m; over the few kilometres
\* the model uses, the great circle distance is that times the length of
\* the coordinate difference.
calculateDistance(a, b) ==
    LET dlat == Abs(a.lat - b.lat)
        dlon == Abs(a.lon - b.lon)
    IN  IF dlat < 30000 /\ dlon < 30000
        THEN (Isqrt(dlat * dlat + dlon * dlon) * 11119) \div 10000
        ELSE Isqrt((dlat \div 1000) * (dlat \div 1000) + (dlon \div 1000) * (dlon \div 1000))
                 * 1112

----------------------------------------------------------------------------
(* Record store: the mock storage of the hotspot service *)

Users == {"u1", "u2"}

NoErr == "nil"

\* the map with one entry set: mockHotspots[hotspot.ID] = hotspot
MapPut(m, id, h) == [i \in DOMAIN m \cup {id} |-> IF i = id THEN h ELSE m[i]]

\* the map with one entry removed: delete(mockHotspots, hotspotID)
MapDel(m, id) == [i \in DOMAIN m \ {id} |-> m[i]]

\* an optional request field (a nil pointer or a pointer to a value)
Nil == <<>>
Some(v) == <<v>>

\* the value a pointer field of a request gives to a field: *p, or the old value for nil
OrElse(opt, old) == IF opt = Nil THEN old ELSE opt[1]

createHotspotMock(store, hotspot) == MapPut(store, hotspot.ID, hotspot)

\* getHotspotMock: the stored hotspot (the pointer the map holds) or an error
getHotspotMock(store, hotspotID) ==
    IF hotspotID \in DOMAIN store THEN [hotspot |-> store[hotspotID], err |-> NoErr]
    ELSE [hotspot |-> None, err |-> "hotspot not found"]

updateHotspotMock(store, hotspot) == MapPut(store, hotspot.ID, hotspot)

deleteHotspotMock(store, hotspotID) == MapDel(store, hotspotID)

\* a new hotspot whose occupancy does not count the creator
NewHotspotUncounted(hotspotID, userID, req) ==
    [ID               |-> hotspotID,
     Category         |-> req.Category,
     Location         |-> req.Location,
     CreatedBy        |-> userID,
     MaxCapacity      |-> req.MaxCapacity,
     CurrentOccupancy |-> 0,
     IsActive         |-> TRUE,
     IsPublic         |-> req.IsPublic,
     Tags             |-> req.Tags,
     Attendees        |-> <<userID>>]

\* the hotspot CreateHotspot builds from the request
NewHotspot(hotspotID, userID, req) ==
    [ID               |-> hotspotID,
     Category         |-> req.Category,
     Location         |-> req.Location,
     CreatedBy        |-> userID,
     MaxCapacity      |-> req.MaxCapacity,
     CurrentOccupancy |-> 1,
     IsActive         |-> TRUE,
     IsPublic         |-> req.IsPublic,
     Tags             |-> req.Tags,
     Attendees        |-> <<userID>>]

\* CreateHotspot: the creator exists (the request is authenticated), the
\* identifier is a fresh uuid, the creator is the first attendee.
CreateHotspot(userID, req) ==
    /\ nextID < MaxHotspots
    /\ LET hotspot == NewHotspot(nextID + 1, userID, req)
       IN  /\ mockHotspots' = createHotspotMock(mockHotspots, hotspot)
           /\ nextID' = nextID + 1
           /\ resp' = [op |-> "create", err |-> NoErr, id |-> hotspot.ID]
    /\ pages' = None
    /\ UNCHANGED <<cacheVars, engVars, liveVars>>

\* the error DeleteHotspot would return if it did not look at the creator
DeleteErrorForAnyone(userID, hotspotID) == getHotspotMock(mockHotspots, hotspotID).err

\* the error DeleteHotspot returns, NoErr when the hotspot is deleted
DeleteError(userID, hotspotID) ==
    IF hotspotID \notin DOMAIN mockHotspots THEN "hotspot not found"
    ELSE IF mockHotspots[hotspotID].CreatedBy # userID
         THEN "only the creator can delete this hotspot"
    ELSE NoErr

\* DeleteHotspot: only the creator may delete; the stored record is removed.
\* No cache tier method is called.
DeleteHotspot(userID, hotspotID) ==
    /\ resp' = [op |-> "delete", err |-> DeleteError(userID, hotspotID), id |-> hotspotID,
                by |-> userID]
    /\ IF DeleteError(userID, hotspotID) # NoErr
       THEN UNCHANGED mockHotspots
       ELSE mockHotspots' = deleteHotspotMock(mockHotspots, hotspotID)
    /\ pages' = None
    /\ UNCHANGED <<nextID, cacheVars, engVars, liveVars>>

InSeq(x, s) == \E i \in 1..Len(s) : s[i] = x

\* the checks of JoinHotspot without the one of the capacity
JoinErrorUnlimited(userID, hotspotID) ==
    IF hotspotID \notin DOMAIN mockHotspots THEN "hotspot not found"
    ELSE LET hotspot == mockHotspots[hotspotID]
         IN  IF ~hotspot.IsActive THEN "hotspot is not active"
             ELSE IF InSeq(userID, hotspot.Attendees) THEN "user is already in this hotspot"
             ELSE NoErr

\* the error JoinHotspot returns, NoErr when the join goes through
JoinError(userID, hotspotID) ==
    IF hotspotID \notin DOMAIN mockHotspots THEN "hotspot not found"
    ELSE LET hotspot == mockHotspots[hotspotID]
         IN  IF ~hotspot.IsActive THEN "hotspot is not active"
             ELSE IF InSeq(userID, hotspot.Attendees) THEN "user is already in this hotspot"
             ELSE IF hotspot.MaxCapacity > 0 /\ hotspot.CurrentOccupancy >= hotspot.MaxCapacity
                  THEN "hotspot is at maximum capacity"
             ELSE NoErr

JoinHotspot(userID, hotspotID) ==
    /\ resp' = [op |-> "join", err |-> JoinError(userID, hotspotID), id |-> hotspotID]
    /\ IF JoinError(userID, hotspotID) # NoErr
       THEN UNCHANGED mockHotspots
       ELSE LET hotspot   == mockHotspots[hotspotID]
                attendees == Append(hotspot.Attendees, userID)
            IN  mockHotspots' = updateHotspotMock(mockHotspots,
                    [hotspot EXCEPT !.Attendees = attendees,
                                    !.CurrentOccupancy = Len(attendees)])
    /\ pages' = None
    /\ UNCHANGED <<nextID, cacheVars, engVars, liveVars>>

\* the sequence without its i-th element: append(s[:i], s[i+1:]...)
RemoveAt(s, i) == [j \in 1..(Len(s) - 1) |-> IF j < i THEN s[j] ELSE s[j + 1]]

IndexOf(x, s) == CHOOSE i \in 1..Len(s) : s[i] = x /\ \A j \in 1..(i - 1) : s[j] # x

\* the users of the runs with three members
Members == Users \cup {"u3"}

\* UserService.GetUserByID: every user who was authenticated has a record
GetUserByID(userID) ==
    IF userID \in Members THEN [user |-> [ID |-> userID], err |-> NoErr]
    ELSE [user |-> None, err |-> "user not found"]

\* a transfer of ownership to the attendee who joined last
newOwnerLatest(hotspot, userID, attendees) ==
    IF hotspot.CreatedBy = userID /\ Len(attendees) > 0
    THEN attendees[Len(attendees)] ELSE hotspot.CreatedBy

\* the creator after userID has left: the first of the remaining attendees
\* when the creator leaves and GetUserByID finds that attendee
newOwner(hotspot, userID, attendees) ==
    IF /\ hotspot.CreatedBy = userID /\ Len(attendees) > 0
       /\ GetUserByID(attendees[1]).err = NoErr
    THEN GetUserByID(attendees[1]).user.ID
    ELSE hotspot.CreatedBy

\* LeaveHotspot: ownership moves to the first remaining attendee; the
\* hotspot of the last attendee is deactivated.
LeaveHotspot(userID, hotspotID) ==
    /\ IF hotspotID \notin DOMAIN mockHotspots
       THEN /\ resp' = [op |-> "leave", err |-> "hotspot not found", id |-> hotspotID]
            /\ UNCHANGED mockHotspots
       ELSE IF ~InSeq(userID, mockHotspots[hotspotID].Attendees)
       THEN /\ resp' = [op |-> "leave", err |-> "user is not in this hotspot", id |-> hotspotID]
            /\ UNCHANGED mockHotspots
       ELSE LET hotspot   == mockHotspots[hotspotID]
                attendees == RemoveAt(hotspot.Attendees, IndexOf(userID, hotspot.Attendees))
                owner     == newOwner(hotspot, userID, attendees)
                active    == IF Len(attendees) = 0 THEN FALSE ELSE hotspot.IsActive
            IN  /\ mockHotspots' = updateHotspotMock(mockHotspots,
                        [hotspot EXCEPT !.Attendees = attendees,
                                        !.CurrentOccupancy = Len(attendees),
                                        !.CreatedBy = owner,
                                        !.IsActive = active])
                /\ resp' = [op |-> "leave", err |-> NoErr, id |-> hotspotID]
    /\ pages' = None
    /\ UNCHANGED <<nextID, cacheVars, engVars, liveVars>>

\* GetHotspot: GET /hotspots/:id
GetHotspot(hotspotID) ==
    /\ resp' = [op |-> "get", err |-> getHotspotMock(mockHotspots, hotspotID).err,
                id |-> hotspotID, hotspot |-> getHotspotMock(mockHotspots, hotspotID).hotspot]
    /\ pages' = None
    /\ UNCHANGED <<storeVars, cacheVars, engVars, liveVars>>

\* the fields UpdateHotspot has assigned when it reaches the capacity check
updateBeforeCapacity(hotspot, req) ==
    [hotspot EXCEPT !.Category = OrElse(req.Category, @),
                    !.Location = OrElse(req.Location, @)]

\* the fields UpdateHotspot assigns from the capacity on
updateFromCapacity(hotspot, req) ==
    [hotspot EXCEPT !.MaxCapacity = OrElse(req.MaxCapacity, @),
                    !.IsPublic = OrElse(req.IsPublic, @),
                    !.Tags = OrElse(req.Tags, @),
                    !.IsActive = OrElse(req.IsActive, @)]

\* the error UpdateHotspot returns, NoErr when the update goes through
UpdateError(userID, hotspotID, req) ==
    IF hotspotID \notin DOMAIN mockHotspots THEN "hotspot not found"
    ELSE IF mockHotspots[hotspotID].CreatedBy # userID
         THEN "only the creator can update this hotspot"
    ELSE IF req.MaxCapacity # Nil
            /\ req.MaxCapacity[1] < mockHotspots[hotspotID].CurrentOccupancy
         THEN "max capacity cannot be less than current occupancy"
    ELSE NoErr

\* UpdateHotspot: the fields are assigned through the pointer the store
\* holds, so the ones assigned before the capacity check are stored even
\* when that check returns its error
UpdateHotspot(userID, hotspotID, req) ==
    /\ resp' = [op |-> "update", err |-> UpdateError(userID, hotspotID, req), id |-> hotspotID]
    /\ IF UpdateError(userID, hotspotID, req)
              \in {"hotspot not found", "only the creator can update this hotspot"}
       THEN UNCHANGED mockHotspots
       ELSE IF UpdateError(userID, hotspotID, req) # NoErr
       THEN mockHotspots' = MapPut(mockHotspots, hotspotID,
                                updateBeforeCapacity(mockHotspots[hotspotID], req))
       ELSE mockHotspots' = updateHotspotMock(mockHotspots,
                updateFromCapacity(updateBeforeCapacity(mockHotspots[hotspotID], req), req))
    /\ pages' = None
    /\ UNCHANGED <<nextID, cacheVars, engVars, liveVars>>

----------------------------------------------------------------------------
(* Direct search: HotspotService.SearchHotspots *)

\* the tags filter: no tag requested, or at least one requested tag is a tag of the hotspot
TagMatch(reqTags, hotspotTags) == reqTags = {} \/ reqTags \cap hotspotTags # {}

\* the available-spots test of both filter sets
IsFull(hotspot) == hotspot.MaxCapacity > 0 /\ hotspot.CurrentOccupancy >= hotspot.MaxCapacity

\* searchHotspotsMock keeps a stored hotspot when it is inside the radius and
\* passes the category, active, available-spots and tags filters.  (The
\* handler never sets the time window of a direct search.)
\* hsKeeps without the radius check
hsKeepsAnyDistance(hotspot, req) ==
    /\ ~(req.Category # Nil /\ hotspot.Category # req.Category[1])
    /\ ~(req.IsActive # Nil /\ hotspot.IsActive # req.IsActive[1])
    /\ ~(req.HasAvailableSpots # Nil /\ req.HasAvailableSpots[1] /\ IsFull(hotspot))
    /\ TagMatch(req.Tags, hotspot.Tags)

hsKeeps(hotspot, req) ==
    /\ ~(calculateDistance(req.Center, hotspot.Location) > req.Radius)
    /\ ~(req.Category # Nil /\ hotspot.Category # req.Category[1])
    /\ ~(req.IsActive # Nil /\ hotspot.IsActive # req.IsActive[1])
    /\ ~(req.HasAvailableSpots # Nil /\ req.HasAvailableSpots[1] /\ IsFull(hotspot))
    /\ TagMatch(req.Tags, hotspot.Tags)

WithDistance(hotspot, center) ==
    [Hotspot |-> hotspot, Distance |-> calculateDistance(center, hotspot.Location)]

IsSortedByDistance(s) == \A i, j \in 1..Len(s) : i < j => s[i].Distance <= s[j].Distance

\* The outcomes of sort.Slice(results, less by Distance) over a list built by
\* ranging over a Go map: the map iteration order is unspecified and the
\* sort is not stable, so hotspots at equal distance come out in any order.
\* a list in any order: no sort at all
AnyOrder(S) == Orderings(S)

SortOutcomes(S) == {s \in Orderings(S) : IsSortedByDistance(s)}

\* the hotspots the scan of searchHotspotsMock appends
hsScan(req) ==
    {WithDistance(mockHotspots[id], req.Center) :
        id \in {i \in DOMAIN mockHotspots : hsKeeps(mockHotspots[i], req)}}

\* the slice results[start:end] of Go, 0-based and end-exclusive
Slice(s, start, end) == SubSeq(s, start + 1, end)

\* searchHotspotsMock after the scan: `results` is the sorted list
hsSearchHotspotsMock(req, results) ==
    LET total == Len(results)
        start == IF req.Offset > total THEN total ELSE req.Offset
        end   == IF req.Offset + req.Limit > total THEN total ELSE req.Offset + req.Limit
    IN  [Hotspots |-> Slice(results, start, end),
         Total    |-> total,
         HasMore  |-> end < total]

\* GET /hotspots/search: the handler has parsed the query into req
SearchHotspots(req) ==
    /\ \E results \in SortOutcomes(hsScan(req)) :
           resp' = [op |-> "search", err |-> NoErr, req |-> req,
                    res |-> hsSearchHotspotsMock(req, results)]
    /\ pages' = None
    /\ UNCHANGED <<storeVars, cacheVars, engVars, liveVars>>

\* A client pages through one query: GET /hotspots/search with offset 0 and
\* limit n, then offset n and limit m, then offset 0 and limit n + m.  Each
\* request is a SearchHotspots call of its own; `pages` keeps the answers
\* as long as no other operation runs.
PageRequest(query, limit, offset) == [query EXCEPT !.Limit = limit, !.Offset = offset]

PageFetched(phase) == "phase" \in DOMAIN pages /\ pages.phase = phase

FirstPage(query, n, m) ==
    /\ \E results \in SortOutcomes(hsScan(PageRequest(query, n, 0))) :
           LET res == hsSearchHotspotsMock(PageRequest(query, n, 0), results)
           IN  /\ resp' = [op |-> "search", err |-> NoErr, req |-> PageRequest(query, n, 0),
                           res |-> res]
               /\ pages' = [phase |-> 1, query |-> query, n |-> n, m |-> m, first |-> res]
    /\ UNCHANGED <<storeVars, cacheVars, engVars, liveVars>>

SecondPage ==
    /\ PageFetched(1)
    /\ LET req == PageRequest(pages.query, pages.m, pages.n)
       IN  \E results \in SortOutcomes(hsScan(req)) :
               LET res == hsSearchHotspotsMock(req, results)
               IN  /\ resp' = [op |-> "search", err |-> NoErr, req |-> req, res |-> res]
                   /\ pages' = [phase |-> 2, query |-> pages.query, n |-> pages.n,
                                m |-> pages.m, first |-> pages.first, second |-> res]
    /\ UNCHANGED <<storeVars, cacheVars, engVars, liveVars>>

WholePage ==
    /\ PageFetched(2)
    /\ LET req == PageRequest(pages.query, pages.n + pages.m, 0)
       IN  \E results \in SortOutcomes(hsScan(req)) :
               LET res == hsSearchHotspotsMock(req, results)
               IN  /\ resp' = [op |-> "search", err |-> NoErr, req |-> req, res |-> res]
                   /\ pages' = [phase |-> 3, query |-> pages.query, n |-> pages.n,
                                m |-> pages.m, first |-> pages.first,
                                second |-> pages.second, whole |-> res]
    /\ UNCHANGED <<storeVars, cacheVars, engVars, liveVars>>

----------------------------------------------------------------------------
(* Clustering engine: grid and distance modes *)

\* one formatted coordinate of a key: fmt.Sprintf("%.4f", x) keeps the sign
\* of a negative value that rounds to zero ("-0.0000")
Fmt4(x) == [neg |-> x < 0, mag |-> Round4(Abs(x))]

\* calculateOptimalGridSize, in ticks (50, 10, 2 and 0.5 "km" are used as degrees)
calculateOptimalGridSize(zoomLevel, configuredSize) ==
    IF configuredSize > 0 THEN configuredSize
    ELSE IF zoomLevel <= 5 THEN 5000000
    ELSE IF zoomLevel <= 10 THEN 1000000
    ELSE IF zoomLevel <= 15 THEN 200000
    ELSE 50000

\* a threshold that does not narrow with the zoom level
calculateOptimalClusterDistanceCoarse(zoomLevel) == 25000

\* calculateOptimalClusterDistance, in metres
calculateOptimalClusterDistance(zoomLevel) ==
    IF zoomLevel <= 5 THEN 25000
    ELSE IF zoomLevel <= 10 THEN 5000
    ELSE IF zoomLevel <= 15 THEN 1000
    ELSE 200

\* getGridKey: "%.4f,%.4f" of the floored coordinates
getGridKey(location, gridSize) ==
    <<Fmt4(FloorTo(location.lat, gridSize)), Fmt4(FloorTo(location.lon, gridSize))>>

\* createClusterFromHotspots: the identity, the member count, the member
\* identifiers in list order and the zoom level of the cluster (centre,
\* bounding box, radius and the sums are floating point summaries of the
\* same members)
createClusterFromHotspots(hotspots, clusterID, zoomLevel) ==
    [ID           |-> clusterID,
     HotspotCount |-> Len(hotspots),
     ZoomLevel    |-> zoomLevel,
     Hotspots     |-> [i \in 1..Len(hotspots) |-> hotspots[i].Hotspot.ID]]

\* the elements of s that satisfy Test, in the order of s
\* a group one hotspot short of the minimum passes too
reachesMinimumShort(group, config) == Len(group) + 1 >= config.MinClusterSize

\* the test before a cluster is created: len(group) >= config.MinClusterSize
reachesMinimum(group, config) == Len(group) >= config.MinClusterSize

RECURSIVE SelectIdx(_, _, _)
SelectIdx(s, keep, i) ==
    IF i > Len(s) THEN <<>>
    ELSE IF i \in keep THEN <<s[i]>> \o SelectIdx(s, keep, i + 1)
    ELSE SelectIdx(s, keep, i + 1)

\* gridMap[key]: the hotspots of one grid key, in input order
gridCell(hotspots, gridSize, key) ==
    SelectIdx(hotspots,
              {i \in 1..Len(hotspots) : getGridKey(hotspots[i].Hotspot.Location, gridSize) = key},
              1)

gridKeys(hotspots, gridSize) ==
    {getGridKey(hotspots[i].Hotspot.Location, gridSize) : i \in 1..Len(hotspots)}

\* the second loop of gridBasedClustering over the keys in the order keyOrder
RECURSIVE gridEmit(_, _, _, _, _, _, _)
gridEmit(hotspots, config, zoomLevel, gridSize, keyOrder, n, clusterID) ==
    IF n > Len(keyOrder) THEN <<>>
    ELSE LET gridHotspots == gridCell(hotspots, gridSize, keyOrder[n])
         IN  IF reachesMinimum(gridHotspots, config)
             THEN <<createClusterFromHotspots(gridHotspots, <<"grid", clusterID>>, zoomLevel)>>
                  \o gridEmit(hotspots, config, zoomLevel, gridSize, keyOrder, n + 1, clusterID + 1)
             ELSE gridEmit(hotspots, config, zoomLevel, gridSize, keyOrder, n + 1, clusterID)

\* gridBasedClustering; keyOrder is the order in which the Go map gridMap
\* is ranged over (unspecified by the language)
gridBasedClustering(hotspots, config, zoomLevel, keyOrder) ==
    gridEmit(hotspots, config, zoomLevel,
             calculateOptimalGridSize(zoomLevel, config.GridSize), keyOrder, 1, 0)

\* the orders in which gridBasedClustering may range over its map
gridKeyOrders(hotspots, config, zoomLevel) ==
    Orderings(gridKeys(hotspots, calculateOptimalGridSize(zoomLevel, config.GridSize)))

\* the inner loop without "used[j] = true": an absorbed hotspot stays free
RECURSIVE distAbsorbUnmarked(_, _, _, _, _, _)
distAbsorbUnmarked(hotspots, config, maxDistance, i, j, acc) ==
    IF j > Len(hotspots) THEN acc
    ELSE IF j \in acc.used \/ i = j
         THEN distAbsorbUnmarked(hotspots, config, maxDistance, i, j + 1, acc)
    ELSE IF /\ calculateDistance(hotspots[i].Hotspot.Location, hotspots[j].Hotspot.Location)
                   <= maxDistance
            /\ Len(acc.members) < config.MaxClusterSize
         THEN distAbsorbUnmarked(hotspots, config, maxDistance, i, j + 1,
                                [used |-> acc.used, members |-> Append(acc.members, hotspots[j])])
    ELSE distAbsorbUnmarked(hotspots, config, maxDistance, i, j + 1, acc)

\* the inner loop of distanceBasedClustering for the seed i: acc is
\* [used, members] after the hotspots before j
RECURSIVE distAbsorb(_, _, _, _, _, _)
distAbsorb(hotspots, config, maxDistance, i, j, acc) ==
    IF j > Len(hotspots) THEN acc
    ELSE IF j \in acc.used \/ i = j
         THEN distAbsorb(hotspots, config, maxDistance, i, j + 1, acc)
    ELSE IF /\ calculateDistance(hotspots[i].Hotspot.Location, hotspots[j].Hotspot.Location)
                   <= maxDistance
            /\ Len(acc.members) < config.MaxClusterSize
         THEN distAbsorb(hotspots, config, maxDistance, i, j + 1,
                         [used |-> acc.used \cup {j}, members |-> Append(acc.members, hotspots[j])])
    ELSE distAbsorb(hotspots, config, maxDistance, i, j + 1, acc)

\* the outer loop of distanceBasedClustering from the seed i on
RECURSIVE distLoop(_, _, _, _, _, _, _)
distLoop(hotspots, config, zoomLevel, maxDistance, i, used, clusterID) ==
    IF i > Len(hotspots) THEN <<>>
    ELSE IF i \in used
         THEN distLoop(hotspots, config, zoomLevel, maxDistance, i + 1, used, clusterID)
    ELSE LET acc == distAbsorb(hotspots, config, maxDistance, i, 1,
                               [used |-> used \cup {i}, members |-> <<hotspots[i]>>])
         IN  IF reachesMinimum(acc.members, config)
             THEN <<createClusterFromHotspots(acc.members, <<"dist", clusterID>>, zoomLevel)>>
                  \o distLoop(hotspots, config, zoomLevel, maxDistance, i + 1, acc.used,
                              clusterID + 1)
             ELSE distLoop(hotspots, config, zoomLevel, maxDistance, i + 1, acc.used, clusterID)

distanceBasedClustering(hotspots, config, zoomLevel) ==
    distLoop(hotspots, config, zoomLevel, calculateOptimalClusterDistance(zoomLevel), 1, {}, 0)

----------------------------------------------------------------------------
(* Clustering engine: k-means and the mode dispatch *)

\* A centroid is the pair of fractions (lat / den, lon / den): the means of
\* the loop are kept exact.  A location is the centroid with den = 1.
AsCentroid(location) == [lat |-> location.lat, lon |-> location.lon, den |-> 1]

ZeroLocation == [lat |-> 0, lon |-> 0]

\* the square of the coordinate distance of a location to a centroid, times den^2
sqNum(location, c) ==
    (location.lat * c.den - c.lat) * (location.lat * c.den - c.lat)
        + (location.lon * c.den - c.lon) * (location.lon * c.den - c.lon)

\* calculateDistance(location, c1) < calculateDistance(location, c2)
centroidCloser(location, c1, c2) ==
    sqNum(location, c1) * c2.den * c2.den < sqNum(location, c2) * c1.den * c1.den

maxIterations == 10

\* calculateOptimalK without the clamp to numHotspots / 3
calculateOptimalKUnclamped(numHotspots, zoomLevel) ==
    LET k0 == Isqrt(numHotspots \div 2)
        k1 == IF zoomLevel > 15 THEN k0 * 2
              ELSE IF zoomLevel < 10 THEN k0 \div 2
              ELSE k0
    IN  IF k1 < 2 THEN 2 ELSE k1

\* calculateOptimalK: int(math.Sqrt(n / 2)) adjusted by the zoom level
calculateOptimalK(numHotspots, zoomLevel) ==
    LET k0 == Isqrt(numHotspots \div 2)
        k1 == IF zoomLevel > 15 THEN k0 * 2
              ELSE IF zoomLevel < 10 THEN k0 \div 2
              ELSE k0
        k2 == IF k1 < 2 THEN 2 ELSE k1
    IN  IF k2 > numHotspots \div 3 THEN numHotspots \div 3 ELSE k2

\* the index of the nearest centroid, the first one among equally near
\* ones: the loop "if dist < minDist" over the centroids
RECURSIVE nearestFrom(_, _, _, _)
nearestFrom(location, centroids, j, best) ==
    IF j > Len(centroids) THEN best
    ELSE IF centroidCloser(location, centroids[j], centroids[best])
         THEN nearestFrom(location, centroids, j + 1, j)
    ELSE nearestFrom(location, centroids, j + 1, best)

nearestCentroid(location, centroids) == nearestFrom(location, centroids, 2, 1)

\* the inner loops of initializeCentroids for one new centroid: acc is
\* [maxDist, farthest] after the hotspots before n; a hotspot replaces the
\* farthest one when its distance to its nearest centroid is greater
RECURSIVE farthestFrom(_, _, _, _)
farthestFrom(hotspots, centroids, n, acc) ==
    IF n > Len(hotspots) THEN acc.farthest
    ELSE LET location == hotspots[n].Hotspot.Location
             d == sqNum(location, centroids[nearestCentroid(location, centroids)])
         IN  IF d > acc.maxDist
             THEN farthestFrom(hotspots, centroids, n + 1, [maxDist |-> d, farthest |-> location])
             ELSE farthestFrom(hotspots, centroids, n + 1, acc)

\* initializeCentroids: the first hotspot, then k - 1 times the hotspot
\* farthest from the centroids chosen so far (the zero location when every
\* hotspot sits on a centroid)
RECURSIVE initializeFrom(_, _, _)
initializeFrom(hotspots, k, centroids) ==
    IF Len(centroids) >= k THEN centroids
    ELSE initializeFrom(hotspots, k,
            Append(centroids,
                   AsCentroid(farthestFrom(hotspots, centroids, 1,
                                           [maxDist |-> 0, farthest |-> ZeroLocation]))))

initializeCentroids(hotspots, k) ==
    initializeFrom(hotspots, k, <<AsCentroid(hotspots[1].Hotspot.Location)>>)

\* assignments[i] of one iteration
kmAssignments(hotspots, centroids) ==
    [i \in 1..Len(hotspots) |-> nearestCentroid(hotspots[i].Hotspot.Location, centroids)]

RECURSIVE SumOver(_, _, _)
SumOver(f, idx, n) ==
    IF n > Len(f) THEN 0
    ELSE (IF n \in idx THEN f[n] ELSE 0) + SumOver(f, idx, n + 1)

\* the mean of the hotspots assigned to centroid j, the old centroid when none is
kmNewCentroid(hotspots, assignments, centroids, j) ==
    LET members == {i \in 1..Len(hotspots) : assignments[i] = j}
    IN  IF members = {} THEN centroids[j]
        ELSE [lat |-> SumOver([i \in 1..Len(hotspots) |-> hotspots[i].Hotspot.Location.lat],
                              members, 1),
              lon |-> SumOver([i \in 1..Len(hotspots) |-> hotspots[i].Hotspot.Location.lon],
                              members, 1),
              den |-> Cardinality(members)]

\* math.Abs(new - old) > 0.0001 degree (10 ticks) on one coordinate
kmMoved(newNum, newDen, oldNum, oldDen) ==
    Abs(newNum * oldDen - oldNum * newDen) > 10 * newDen * oldDen

\* one pass of the loop body: the new centroids and the converged flag
kmIteration(hotspots, centroids) ==
    LET assignments == kmAssignments(hotspots, centroids)
        new == [j \in 1..Len(centroids) |-> kmNewCentroid(hotspots, assignments, centroids, j)]
    IN  [centroids |-> new,
         converged |-> \A j \in 1..Len(centroids) :
                          \/ \A i \in 1..Len(hotspots) : assignments[i] # j
                          \/ /\ ~kmMoved(new[j].lat, new[j].den, centroids[j].lat, centroids[j].den)
                             /\ ~kmMoved(new[j].lon, new[j].den, centroids[j].lon, centroids[j].den)]

\* a loop without the iteration cap
kmLoopGuardUncapped(iteration) == TRUE

\* the loop condition: for iteration := 0; iteration < maxIterations; iteration++
kmLoopGuard(iteration) == iteration < maxIterations

\* the centroids the loop ends with, entered with `iteration` passes done
RECURSIVE kmLoop(_, _, _)
kmLoop(hotspots, centroids, iteration) ==
    IF ~kmLoopGuard(iteration) THEN centroids
    ELSE LET r == kmIteration(hotspots, centroids)
         IN  IF r.converged THEN r.centroids ELSE kmLoop(hotspots, r.centroids, iteration + 1)

\* the final clusters: every hotspot goes to its nearest centroid, the
\* groups that reach the minimum size become clusters "kmeans_<i>"
RECURSIVE kmEmit(_, _, _, _, _)
kmEmit(hotspots, config, zoomLevel, assignments, j) ==
    IF j > calculateOptimalK(Len(hotspots), zoomLevel) THEN <<>>
    ELSE LET group == SelectIdx(hotspots, {i \in 1..Len(hotspots) : assignments[i] = j}, 1)
         IN  (IF reachesMinimum(group, config)
              THEN <<createClusterFromHotspots(group, <<"kmeans", j - 1>>, zoomLevel)>>
              ELSE <<>>)
             \o kmEmit(hotspots, config, zoomLevel, assignments, j + 1)

kmFinalClusters(hotspots, config, zoomLevel, centroids) ==
    kmEmit(hotspots, config, zoomLevel, kmAssignments(hotspots, centroids), 1)

\* the early return of kMeansClustering
kmSkips(hotspots, config, zoomLevel) ==
    calculateOptimalK(Len(hotspots), zoomLevel) <= 1 \/ Len(hotspots) < config.MinClusterSize

kMeansClustering(hotspots, config, zoomLevel) ==
    IF kmSkips(hotspots, config, zoomLevel) THEN <<>>
    ELSE kmFinalClusters(hotspots, config, zoomLevel,
            kmLoop(hotspots,
                   initializeCentroids(hotspots, calculateOptimalK(Len(hotspots), zoomLevel)),
                   0))

\* autoClustering: distance mode under 20 hotspots, grid mode under 100, k-means from 100 on
autoClustering(hotspots, config, zoomLevel, keyOrder) ==
    IF Len(hotspots) < 20 THEN distanceBasedClustering(hotspots, config, zoomLevel)
    ELSE IF Len(hotspots) < 100 THEN gridBasedClustering(hotspots, config, zoomLevel, keyOrder)
    ELSE kMeansClustering(hotspots, config, zoomLevel)

\* clusterHotspots: the dispatch on config.Mode
clusterHotspots(hotspots, config, zoomLevel, keyOrder) ==
    IF config.Mode = "grid" THEN gridBasedClustering(hotspots, config, zoomLevel, keyOrder)
    ELSE IF config.Mode = "distance" THEN distanceBasedClustering(hotspots, config, zoomLevel)
    ELSE IF config.Mode = "kmeans" THEN kMeansClustering(hotspots, config, zoomLevel)
    ELSE IF config.Mode = "auto" THEN autoClustering(hotspots, config, zoomLevel, keyOrder)
    ELSE <<>>

----------------------------------------------------------------------------
(* Cache tier *)

\* getRegionKey: "hotspots:region:%.4f,%.4f:%.1f"
getRegionKey(center, radius) ==
    <<"region", Fmt4(center.lat), Fmt4(center.lon), Round1(radius)>>

\* getClusterKey: "hotspots:clusters:%.4f,%.4f:%.1f:z%d"
getClusterKey(center, radius, zoomLevel) ==
    <<"clusters", Fmt4(center.lat), Fmt4(center.lon), Round1(radius), zoomLevel>>

\* json.Marshal of a slice: a nil slice is written as null, any other as the list
JsonSlice(isNil, items) == [null |-> isNil, items |-> items]

\* a lookup that takes any entry of the cache for the one of the key
IsHitAnyKey(cache, key) == \E k \in DOMAIN cache : ~cache[k].null

\* json.Unmarshal into a slice gives nil for null, and a cache hit needs a non-nil value
IsHit(cache, key) == key \in DOMAIN cache /\ ~cache[key].null

\* IsAvailable
IsAvailable == redisAvailable

\* GetCachedHotspots / GetCachedClusterResults: (nil, nil) when unavailable or absent
GetCached(cache, key) ==
    IF IsAvailable /\ key \in DOMAIN cache THEN cache[key] ELSE JsonSlice(TRUE, <<>>)

\* CacheHotspots / CacheClusterResults: a no-op when unavailable, else SET key data
CachePut(cache, key, payload) == IF IsAvailable THEN MapPut(cache, key, payload) ELSE cache

\* the outcomes of GetNearbyHotspotIDs: the identifiers of the index inside
\* the radius, nearest first (at most 1000), empty when unavailable
GetNearbyHotspotIDs(center, radiusKm) ==
    IF ~IsAvailable THEN {<<>>}
    ELSE LET near == {id \in DOMAIN geoIndex : calculateDistance(center, geoIndex[id]) <= radiusKm}
         IN  {s \in Orderings(near) :
                \A i, j \in 1..Len(s) :
                    i < j => calculateDistance(center, geoIndex[s[i]])
                                 <= calculateDistance(center, geoIndex[s[j]])}

\* the map without the entries of the given keys: DEL of each key, where a
\* key that does not exist is no error
MapDelAll(m, keys) == [k \in DOMAIN m \ keys |-> m[k]]

\* the three stores of the cache tier as one value
CacheState == [regionCache |-> regionCache, clusterCache |-> clusterCache, geoIndex |-> geoIndex]

\* the reply of a cache tier method: failed names the commands of the call
\* that did not reach the server, before is the cache tier at the call of an
\* invalidation of a hotspot, and again tells that the previous call was the
\* same one and reached the server
CacheReply(op, arg, err, failed) ==
    [op |-> op, arg |-> arg, err |-> err, failed |-> failed,
     before |-> IF op = "InvalidateHotspotCache" THEN CacheState ELSE None,
     again |-> resp.op = op /\ resp.arg = arg /\ resp.failed = {}]

\* a command is only sent, and can only fail, when the client is connected
CanFail(failed) == failed = {} \/ IsAvailable

\* AddHotspotToGeoIndex: GEOADD hotspots:geo lon lat id
AddHotspotToGeoIndex(hotspot, failed) ==
    /\ CanFail(failed)
    /\ IF ~IsAvailable
       THEN /\ resp' = CacheReply("AddHotspotToGeoIndex", hotspot, NoErr, failed)
            /\ UNCHANGED geoIndex
       ELSE IF "index" \in failed
       THEN /\ resp' = CacheReply("AddHotspotToGeoIndex", hotspot, "redis", failed)
            /\ UNCHANGED geoIndex
       ELSE /\ resp' = CacheReply("AddHotspotToGeoIndex", hotspot, NoErr, failed)
            /\ geoIndex' = MapPut(geoIndex, hotspot.ID, hotspot.Location)
    /\ pages' = None
    /\ UNCHANGED <<storeVars, redisAvailable, regionCache, clusterCache, covered, engVars, liveVars>>

\* a ZREM that removes the member when it is there and adds it when it is not
zRemToggling(index, hotspotID) ==
    IF hotspotID \in DOMAIN index THEN MapDel(index, hotspotID)
    ELSE MapPut(index, hotspotID, ZeroLocation)

\* ZREM hotspots:geo id: a member that is not there is no error
zRem(index, hotspotID) == MapDel(index, hotspotID)

\* RemoveHotspotFromGeoIndex
RemoveHotspotFromGeoIndex(hotspotID, failed) ==
    /\ CanFail(failed)
    /\ IF ~IsAvailable
       THEN /\ resp' = CacheReply("RemoveHotspotFromGeoIndex", hotspotID, NoErr, failed)
            /\ UNCHANGED geoIndex
       ELSE IF "index" \in failed
       THEN /\ resp' = CacheReply("RemoveHotspotFromGeoIndex", hotspotID, "redis", failed)
            /\ UNCHANGED geoIndex
       ELSE /\ resp' = CacheReply("RemoveHotspotFromGeoIndex", hotspotID, NoErr, failed)
            /\ geoIndex' = zRem(geoIndex, hotspotID)
    /\ pages' = None
    /\ UNCHANGED <<storeVars, redisAvailable, regionCache, clusterCache, covered, engVars, liveVars>>

\* CacheHotspots: SET regionKey json; payload is the marshalled list
CacheHotspots(center, radius, payload, failed) ==
    /\ CanFail(failed)
    /\ Cardinality(DOMAIN regionCache) + Cardinality(DOMAIN clusterCache) < MaxEntries
    /\ LET key == getRegionKey(center, radius)
       IN  IF IsAvailable /\ "keys" \in failed
           THEN /\ resp' = CacheReply("CacheHotspots", key, "redis", failed)
                /\ UNCHANGED regionCache
           ELSE /\ resp' = CacheReply("CacheHotspots", key, NoErr, failed)
                /\ regionCache' = CachePut(regionCache, key, payload)
    /\ pages' = None
    /\ UNCHANGED <<storeVars, redisAvailable, clusterCache, geoIndex, covered, engVars, liveVars>>

\* CacheClusterResults: SET clusterKey json
CacheClusterResults(center, radius, zoomLevel, payload, failed) ==
    /\ CanFail(failed)
    /\ Cardinality(DOMAIN regionCache) + Cardinality(DOMAIN clusterCache) < MaxEntries
    /\ LET key == getClusterKey(center, radius, zoomLevel)
       IN  IF IsAvailable /\ "keys" \in failed
           THEN /\ resp' = CacheReply("CacheClusterResults", key, "redis", failed)
                /\ UNCHANGED clusterCache
           ELSE /\ resp' = CacheReply("CacheClusterResults", key, NoErr, failed)
                /\ clusterCache' = CachePut(clusterCache, key, payload)
    /\ pages' = None
    /\ UNCHANGED <<storeVars, redisAvailable, regionCache, geoIndex, covered, engVars, liveVars>>

\* the zoom levels of the loop of InvalidateRegionCache
invalidatedZoomLevels == 1..20

\* the cluster keys InvalidateRegionCache deletes for one region
regionClusterKeys(center, radius) ==
    {getClusterKey(center, radius, zoomLevel) : zoomLevel \in invalidatedZoomLevels}

\* InvalidateRegionCache: DEL of the cluster key of every zoom level, then
\* DEL of the region key, whose error is the one returned
InvalidateRegionCache(center, radius, failed) ==
    /\ CanFail(failed)
    /\ LET arg == [Location |-> center, Radius |-> radius]
       IN  IF ~IsAvailable
           THEN /\ resp' = CacheReply("InvalidateRegionCache", arg, NoErr, failed)
                /\ UNCHANGED <<regionCache, clusterCache>>
           ELSE IF "keys" \in failed
           THEN /\ resp' = CacheReply("InvalidateRegionCache", arg, "redis", failed)
                /\ UNCHANGED <<regionCache, clusterCache>>
           ELSE /\ resp' = CacheReply("InvalidateRegionCache", arg, NoErr, failed)
                /\ clusterCache' = MapDelAll(clusterCache, regionClusterKeys(center, radius))
                /\ regionCache' = MapDelAll(regionCache, {getRegionKey(center, radius)})
    /\ pages' = None
    /\ UNCHANGED <<storeVars, redisAvailable, geoIndex, covered, engVars, liveVars>>

\* the radii of InvalidateHotspotCache without the largest one
radiusesToInvalidateShort == {1000, 5000, 10000, 25000}

\* the radii, in metres, of the regions InvalidateHotspotCache clears around
\* a hotspot: 1, 5, 10, 25 and 50 km
radiusesToInvalidate == {1000, 5000, 10000, 25000, 50000}

\* InvalidateHotspotCache: the hotspot leaves the geo index (an error is
\* logged), the regions around it are invalidated (their errors are dropped),
\* and nil is returned
InvalidateHotspotCache(hotspot, failed) ==
    /\ CanFail(failed)
    /\ resp' = CacheReply("InvalidateHotspotCache", hotspot, NoErr, failed)
    /\ geoIndex' = IF IsAvailable /\ "index" \notin failed
                   THEN zRem(geoIndex, hotspot.ID) ELSE geoIndex
    /\ IF IsAvailable /\ "keys" \notin failed
       THEN /\ clusterCache' = MapDelAll(clusterCache,
                   UNION {regionClusterKeys(hotspot.Location, radius) :
                              radius \in radiusesToInvalidate})
            /\ regionCache' = MapDelAll(regionCache,
                   {getRegionKey(hotspot.Location, radius) : radius \in radiusesToInvalidate})
       ELSE UNCHANGED <<regionCache, clusterCache>>
    /\ pages' = None
    /\ UNCHANGED <<storeVars, redisAvailable, covered, engVars, liveVars>>

----------------------------------------------------------------------------
(* Search orchestrator: GeospatialService.SearchHotspotsOptimized *)

\* getHotspotsByIDs of the geospatial service: it has no access to the
\* stored hotspots and returns an empty list
getHotspotsByIDs(ids) == <<>>

\* a searchHotspotsMock of the geospatial service that reads the stored hotspots
gsSearchHotspotsMockStored(searchReq) == CHOOSE s \in SortOutcomes(hsScan(searchReq)) : TRUE

\* searchHotspotsMock of the geospatial service: it returns an empty list
gsSearchHotspotsMock(searchReq) == <<>>

\* getFirstCategory
getFirstCategory(categories) == IF Len(categories) > 0 THEN Some(categories[1]) ELSE Nil

\* traditionalGeospatialSearch: the legacy request handed to the mock search
traditionalGeospatialSearch(req) ==
    gsSearchHotspotsMock(
        [Center            |-> req.Center,
         Radius            |-> req.Radius,
         Limit             |-> req.Pagination.Limit,
         Offset            |-> req.Pagination.Offset,
         Category          |-> getFirstCategory(req.Filters.Categories),
         IsActive          |-> req.Filters.IsActive,
         HasAvailableSpots |-> req.Filters.HasAvailableSpots,
         Tags              |-> req.Filters.Tags])

\* applyFilters keeps a hotspot that passes every filter of the indexed path
gsKeeps(hotspot, filters) ==
    /\ Len(filters.Categories) > 0 => hotspot.Category \in Range(filters.Categories)
    /\ ~(filters.IsActive # Nil /\ hotspot.IsActive # filters.IsActive[1])
    /\ ~(filters.HasAvailableSpots # Nil /\ filters.HasAvailableSpots[1] /\ IsFull(hotspot))
    /\ ~(filters.MinCapacity # Nil /\ hotspot.MaxCapacity < filters.MinCapacity[1])
    /\ ~(filters.MaxCapacity # Nil /\ hotspot.MaxCapacity > filters.MaxCapacity[1])
    /\ ~(filters.IsPublic # Nil /\ hotspot.IsPublic # filters.IsPublic[1])
    /\ TagMatch(filters.Tags, hotspot.Tags)

applyFilters(hotspots, filters) ==
    SelectIdx(hotspots, {i \in 1..Len(hotspots) : gsKeeps(hotspots[i], filters)}, 1)

convertToHotspotsWithDistance(hotspots, center) ==
    [i \in 1..Len(hotspots) |-> WithDistance(hotspots[i], center)]

filterByDistance(hotspots, maxDistance) ==
    SelectIdx(hotspots, {i \in 1..Len(hotspots) : hotspots[i].Distance <= maxDistance}, 1)

\* the pagination of queryHotspotsOptimized
gsPaginate(finalHotspots, pagination) ==
    LET n     == Len(finalHotspots)
        end   == IF pagination.Offset + pagination.Limit > n THEN n
                 ELSE pagination.Offset + pagination.Limit
        start == IF pagination.Offset > n THEN n ELSE pagination.Offset
    IN  Slice(finalHotspots, start, end)

\* the outcomes of queryHotspotsOptimized for the candidates of the index
queryHotspotsOptimized(req, candidateIDs) ==
    IF Len(candidateIDs) = 0 THEN {traditionalGeospatialSearch(req)}
    ELSE LET hotspots  == getHotspotsByIDs(candidateIDs)
             filtered  == applyFilters(hotspots, req.Filters)
             withDist  == convertToHotspotsWithDistance(filtered, req.Center)
             final     == filterByDistance(withDist, req.Radius)
         IN  {gsPaginate(sorted, req.Pagination) : sorted \in SortOutcomes(Range(final))}

\* the slice of pointers &h.Hotspot handed to CacheHotspots: with a loop
\* variable per iteration (Go 1.22 on) each points to its own copy, with one
\* loop variable for the loop they all point to the last copy
hotspotPointers(hotspots, perIteration) ==
    [i \in 1..Len(hotspots) |->
        IF perIteration THEN hotspots[i].Hotspot ELSE hotspots[Len(hotspots)].Hotspot]

\* the defaults the handler substitutes before it calls the service
normalizeRequest(raw) ==
    [raw EXCEPT
        !.Radius = IF raw.Radius <= 0 THEN 10000 ELSE raw.Radius,
        !.Pagination.Limit = IF raw.Pagination.Limit <= 0 THEN 50
                             ELSE IF raw.Pagination.Limit > 1000 THEN 1000
                             ELSE raw.Pagination.Limit,
        !.ZoomLevel = IF raw.ZoomLevel <= 0 THEN 10 ELSE raw.ZoomLevel,
        !.Clustering.Mode = IF raw.Clustering.Mode = "" THEN "auto" ELSE raw.Clustering.Mode,
        !.Clustering.MinClusterSize = IF raw.Clustering.MinClusterSize <= 0 THEN 2
                                      ELSE raw.Clustering.MinClusterSize,
        !.Clustering.MaxClusterSize = IF raw.Clustering.MaxClusterSize <= 0 THEN 100
                                      ELSE raw.Clustering.MaxClusterSize]

\* the clustering function that runs for a mode and an input length
effectiveMode(config, n) ==
    IF config.Mode # "auto" THEN config.Mode
    ELSE IF n < 20 THEN "distance"
    ELSE IF n < 100 THEN "grid"
    ELSE "kmeans"

\* whether the slice a clustering run returns is nil: grid and distance mode
\* and the end of k-means return "var clusters" as appended to, the early
\* return of k-means and an unknown mode return an empty non-nil slice
clustersAreNil(hotspots, config, zoomLevel, clusters) ==
    /\ clusters = <<>>
    /\ \/ effectiveMode(config, Len(hotspots)) \in {"grid", "distance"}
       \/ /\ effectiveMode(config, Len(hotspots)) = "kmeans"
          /\ ~kmSkips(hotspots, config, zoomLevel)

\* the hotspots of the store inside the radius of a request
InsideQuery(req) ==
    {id \in DOMAIN mockHotspots :
        calculateDistance(req.Center, mockHotspots[id].Location) <= req.Radius}

\* an orchestrator that hands the error of a failed cache command to its caller
gsSearchErrorPropagated(failed) == IF failed = {} THEN NoErr ELSE "redis"

\* the error SearchHotspotsOptimized returns when the commands named in
\* failed did not reach the cache: a read error makes the hit test false,
\* the error of the index query is logged, the result of a write is dropped
gsSearchError(failed) == NoErr

\* the result of the orchestrator; failed names the cache commands of the
\* request that failed
OptResponse(req, clusters, hotspots, total, hasMore, cacheHit, failed) ==
    [op |-> "searchOptimized", err |-> gsSearchError(failed), req |-> req,
     Clusters |-> clusters, Hotspots |-> hotspots, TotalCount |-> total,
     ClusterCount |-> Len(clusters), HasMore |-> hasMore, CacheHit |-> cacheHit,
     failed |-> failed]

\* a step 3 that clusters whenever a clustering mode is requested
shouldClusterByMode(req, hotspots) == req.Clustering.Mode # "none"

\* the condition of step 3 under which the clustering engine runs
shouldCluster(req, hotspots) ==
    req.Clustering.Mode # "none" /\ Len(hotspots) > req.Clustering.MinClusterSize

\* steps 2 to 4 of SearchHotspotsOptimized: the query, the clustering
\* decision, the cache write and the result
optMiss(req, hotspots, keyOrder, perIteration, failed) ==
    IF shouldCluster(req, hotspots)
    THEN LET clusters == clusterHotspots(hotspots, req.Clustering, req.ZoomLevel, keyOrder)
             key      == getClusterKey(req.Center, req.Radius, req.ZoomLevel)
         IN  /\ clusterCache' = IF "write" \in failed THEN clusterCache
                    ELSE CachePut(clusterCache, key,
                        JsonSlice(clustersAreNil(hotspots, req.Clustering, req.ZoomLevel, clusters),
                                  clusters))
             /\ covered' = IF IsAvailable /\ "write" \notin failed
                           THEN MapPut(covered, key, InsideQuery(req)) ELSE covered
             /\ resp' = OptResponse(req, clusters, <<>>, Len(hotspots),
                                    Len(hotspots) >= req.Pagination.Limit, FALSE, failed)
             /\ UNCHANGED regionCache
    ELSE LET key == getRegionKey(req.Center, req.Radius)
         IN  /\ regionCache' = IF "write" \in failed THEN regionCache
                    ELSE CachePut(regionCache, key,
                        JsonSlice(FALSE, hotspotPointers(hotspots, perIteration)))
             /\ covered' = IF IsAvailable /\ "write" \notin failed
                           THEN MapPut(covered, key, InsideQuery(req)) ELSE covered
             /\ resp' = OptResponse(req, <<>>, hotspots, Len(hotspots),
                                    Len(hotspots) >= req.Pagination.Limit, FALSE, failed)
             /\ UNCHANGED clusterCache

\* the service method, called with the request the handler has completed;
\* failed names the commands of this request that did not reach the cache:
\* the GET of the cache check ("read"), the GEORADIUS of the index
\* ("index"), the SET of the result ("write")
gsSearchHotspotsOptimized(req, failed) ==
    LET clusterKey == getClusterKey(req.Center, req.Radius, req.ZoomLevel)
        regionKey  == getRegionKey(req.Center, req.Radius)
        readable   == IsAvailable /\ "read" \notin failed
    IN  IF readable /\ req.Clustering.Mode # "none" /\ IsHit(clusterCache, clusterKey)
        THEN LET cachedClusters == GetCached(clusterCache, clusterKey).items
             IN  /\ failed = {}
                 /\ resp' = OptResponse(req, cachedClusters, <<>>, Len(cachedClusters), FALSE,
                                        TRUE, failed)
                 /\ UNCHANGED <<regionCache, clusterCache, covered>>
        ELSE IF readable /\ req.Clustering.Mode = "none" /\ IsHit(regionCache, regionKey)
        THEN LET hotspots == convertToHotspotsWithDistance(
                                 GetCached(regionCache, regionKey).items, req.Center)
             IN  /\ failed = {}
                 /\ resp' = OptResponse(req, <<>>, hotspots, Len(hotspots), FALSE, TRUE, failed)
                 /\ UNCHANGED <<regionCache, clusterCache, covered>>
        ELSE \E candidateIDs \in (IF "index" \in failed THEN {<<>>}
                                  ELSE GetNearbyHotspotIDs(req.Center, req.Radius)) :
             \E hotspots \in queryHotspotsOptimized(req, candidateIDs) :
             \E keyOrder \in gridKeyOrders(hotspots, req.Clustering, req.ZoomLevel) :
             \E perIteration \in (IF Len(hotspots) < 2 THEN {TRUE} ELSE BOOLEAN) :
                 optMiss(req, hotspots, keyOrder, perIteration, failed)

\* POST /hotspots/search/optimized: raw is the bound JSON request
\* ShouldBindJSON: latitude and longitude of the centre are HotspotLocation
\* fields bound as "required", which a number satisfies only when it is not
\* zero; the request is otherwise well-formed JSON
bindError(raw) ==
    IF raw.Center.lat = 0 \/ raw.Center.lon = 0 THEN "Invalid request format" ELSE NoErr

\* the 400 reply of the handler, NoErr when the request goes to the service
handlerError(raw) ==
    IF bindError(raw) # NoErr THEN bindError(raw)
    ELSE IF raw.Center.lat = 0 /\ raw.Center.lon = 0 THEN "Center coordinates are required"
    ELSE NoErr

SearchHotspotsOptimized(raw, failed) ==
    /\ CanFail(failed)
    /\ IF handlerError(raw) # NoErr
       THEN /\ failed = {}
            /\ resp' = [op |-> "searchOptimized", err |-> handlerError(raw), req |-> raw]
            /\ UNCHANGED <<regionCache, clusterCache, covered>>
       ELSE gsSearchHotspotsOptimized(normalizeRequest(raw), failed)
    /\ pages' = None
    /\ UNCHANGED <<storeVars, redisAvailable, geoIndex, engVars, liveVars>>

\* a cached entry reaches the end of its 5 minutes: the key is gone
ExpireCacheEntry(key) ==
    /\ key \in DOMAIN regionCache \cup DOMAIN clusterCache
    /\ regionCache' = MapDel(regionCache, key)
    /\ clusterCache' = MapDel(clusterCache, key)
    /\ covered' = MapDel(covered, key)
    /\ resp' = [op |-> "expire", err |-> NoErr]
    /\ pages' = None
    /\ UNCHANGED <<storeVars, redisAvailable, geoIndex, engVars, liveVars>>

----------------------------------------------------------------------------
(* The system: requests drawn from small sets *)

CenterA   == [lat |-> 100000, lon |-> 100000]
CenterB   == [lat |-> 100002, lon |-> 100000]   \* the same cache key as CenterA
SpotNorth == [lat |-> 100090, lon |-> 100000]   \* 100 m north of CenterA
SpotSouth == [lat |-> 99910,  lon |-> 100000]   \* 100 m south of CenterA
SpotEast  == [lat |-> 100000, lon |-> 100950]   \* 1056 m east of CenterA

CreateRequests ==
    {[Location |-> SpotNorth, Category |-> "cafe", MaxCapacity |-> 2, IsPublic |-> TRUE,
      Tags |-> {}],
     [Location |-> SpotSouth, Category |-> "park", MaxCapacity |-> 2, IsPublic |-> TRUE,
      Tags |-> {"music"}],
     [Location |-> SpotEast, Category |-> "cafe", MaxCapacity |-> 1, IsPublic |-> FALSE,
      Tags |-> {}]}

SearchRequests ==
    {[Center |-> c, Radius |-> r, Category |-> f.Category, IsActive |-> f.IsActive,
      HasAvailableSpots |-> f.HasAvailableSpots, Tags |-> {}, Limit |-> p[1], Offset |-> p[2]] :
        c \in {CenterA}, r \in {1000, 2000},
        f \in {[Category |-> Nil, IsActive |-> Nil, HasAvailableSpots |-> Nil],
               [Category |-> Some("cafe"), IsActive |-> Some(TRUE),
                HasAvailableSpots |-> Some(TRUE)]},
        p \in {<<1, 0>>, <<1, 1>>, <<2, 0>>}}

NoFilters ==
    [Categories |-> <<>>, IsActive |-> Nil, HasAvailableSpots |-> Nil, Tags |-> {},
     MinCapacity |-> Nil, MaxCapacity |-> Nil, IsPublic |-> Nil]

\* centre, radius and clustering mode of the searches: two that share the
\* region key and one with clustering
OptimizedQueries ==
    {<<CenterA, 1000, "none">>, <<CenterB, 1040, "none">>, <<CenterA, 1000, "grid">>}

OptimizedRequests ==
    {[Center |-> q[1], Radius |-> q[2], ZoomLevel |-> 12, Filters |-> NoFilters,
      Pagination |-> [Limit |-> 1, Offset |-> 0],
      Clustering |-> [Mode |-> q[3], MinClusterSize |-> 2, MaxClusterSize |-> 100,
                      GridSize |-> 0]] :
        q \in OptimizedQueries}
    \cup
    {[Center |-> c, Radius |-> 1000, ZoomLevel |-> 0, Filters |-> NoFilters,
      Pagination |-> [Limit |-> 0, Offset |-> 0],
      Clustering |-> [Mode |-> "", MinClusterSize |-> 0, MaxClusterSize |-> 0, GridSize |-> 0]] :
        c \in {CenterA, ZeroLocation}}

\* the cache commands of one request that fail: none, one, or all of them
SearchFaults == {{}, {"read"}, {"index"}, {"write"}, {"read", "index", "write"}}

EmptyMap == [i \in {} |-> i]

EngineIdle == /\ clIn = None /\ clOut = None /\ km = None

\* no WebSocket client, no chat message, no JoinHotspot call in progress
LiveIdle == /\ rooms = EmptyMap /\ mockChatMessages = EmptyMap /\ joins = EmptyMap

Init ==
    /\ mockHotspots = EmptyMap
    /\ nextID = 0
    /\ redisAvailable \in BOOLEAN
    /\ regionCache = EmptyMap
    /\ clusterCache = EmptyMap
    /\ geoIndex = EmptyMap
    /\ covered = EmptyMap
    /\ resp = [op |-> "init", err |-> NoErr]
    /\ pages = None
    /\ EngineIdle
    /\ LiveIdle

Next ==
    \/ \E userID \in Users, req \in CreateRequests : CreateHotspot(userID, req)
    \/ \E userID \in Users, hotspotID \in 1..MaxHotspots : DeleteHotspot(userID, hotspotID)
    \/ \E userID \in Users, hotspotID \in 1..MaxHotspots : JoinHotspot(userID, hotspotID)
    \/ \E userID \in Users, hotspotID \in 1..MaxHotspots : LeaveHotspot(userID, hotspotID)
    \/ \E req \in SearchRequests : SearchHotspots(req)
    \/ \E raw \in OptimizedRequests, failed \in SearchFaults :
           SearchHotspotsOptimized(raw, failed)
    \/ \E key \in DOMAIN regionCache \cup DOMAIN clusterCache : ExpireCacheEntry(key)

Spec == Init /\ [][Next]_vars

----------------------------------------------------------------------------
(* Paging through the direct search *)

PageQueries == {req \in SearchRequests : req.Limit = 1 /\ req.Offset = 0}

PageSizes == 1..MaxPage

NextPages ==
    \/ \E userID \in Users, req \in CreateRequests : CreateHotspot(userID, req)
    \/ \E userID \in Users, hotspotID \in 1..MaxHotspots : DeleteHotspot(userID, hotspotID)
    \/ \E query \in PageQueries, n \in PageSizes, m \in PageSizes : FirstPage(query, n, m)
    \/ SecondPage
    \/ WholePage

SpecPages == Init /\ [][NextPages]_vars

----------------------------------------------------------------------------
(* The clustering engine on its own: clusterHotspots applied to an input *)

\* a list element with the fields the clustering functions read
PointAt(id, location) == [Hotspot |-> [ID |-> id, Location |-> location], Distance |-> 0]

PointsAt(locations) == [i \in 1..Len(locations) |-> PointAt(i, locations[i])]

ListsOver(S, n) == UNION {[1..len -> S] : len \in 0..n}

\* two points 111 m apart, one 4 ticks from the first, one 278 m from the
\* first and 167 m from the second, and one ten degrees away
GridLocations ==
    {[lat |-> 0, lon |-> 0], [lat |-> 0, lon |-> 100], [lat |-> 0, lon |-> 4],
     [lat |-> 0, lon |-> 250], [lat |-> 1000000, lon |-> 1000000]}

KMeansLocations == {[lat |-> 0, lon |-> 0], [lat |-> 0, lon |-> 100], [lat |-> 300, lon |-> 0]}

ClusterConfigs ==
    [Mode : {"grid", "distance", "kmeans", "auto"}, MinClusterSize : {1, 2},
     MaxClusterSize : {2, 100}, GridSize : {0, 4, 500000}]

\* the latitudes of twelve hotspots on one meridian for which the k-means
\* loop at zoom 12 has not converged after ten passes
SlowLatitudes == <<163, 148, 213, 26, 167, 180, 320, 144, 7, 199, 239, 187>>

SlowPoints == PointsAt([i \in 1..Len(SlowLatitudes) |-> [lat |-> SlowLatitudes[i], lon |-> 0]])

\* twenty hotspots in three grid cells and a hundred hotspots on four
\* locations: the inputs for which auto mode picks grid mode and k-means
TwentyPoints ==
    PointsAt([i \in 1..20 |->
        IF i % 3 = 0 THEN [lat |-> 0, lon |-> 0]
        ELSE IF i % 3 = 1 THEN [lat |-> 0, lon |-> 100]
        ELSE [lat |-> 1000000, lon |-> 1000000]])

HundredPoints == PointsAt([i \in 1..100 |-> [lat |-> i % 4, lon |-> 0]])

\* a hundred and fifty hotspots on four locations
HundredFiftyPoints == PointsAt([i \in 1..150 |-> [lat |-> i % 4, lon |-> 0]])

KMeansConfig ==
    [Mode |-> "kmeans", MinClusterSize |-> 2, MaxClusterSize |-> 100, GridSize |-> 0]

ClusterInputs ==
    {[hotspots |-> PointsAt(l), config |-> c, zoomLevel |-> z] :
        l \in ListsOver(GridLocations, MaxPoints), c \in ClusterConfigs, z \in {3, 16}}
    \cup
    {[hotspots |-> PointsAt(l), config |-> [KMeansConfig EXCEPT !.MinClusterSize = min],
      zoomLevel |-> 12] :
        l \in [1..KMeansPoints -> KMeansLocations], min \in {2, 3}}
    \cup
    {[hotspots |-> h, config |-> [KMeansConfig EXCEPT !.Mode = "auto"], zoomLevel |-> 12] :
        h \in {TwentyPoints, HundredPoints}}
    \cup
    {[hotspots |-> h, config |-> KMeansConfig, zoomLevel |-> 12] :
        h \in {SlowPoints, HundredFiftyPoints}}

SystemIdle ==
    /\ mockHotspots = EmptyMap
    /\ nextID = 0
    /\ redisAvailable = TRUE
    /\ regionCache = EmptyMap
    /\ clusterCache = EmptyMap
    /\ geoIndex = EmptyMap
    /\ covered = EmptyMap
    /\ resp = [op |-> "init", err |-> NoErr]
    /\ pages = None

InitCluster ==
    /\ SystemIdle
    /\ LiveIdle
    /\ clIn \in ClusterInputs
    /\ clOut = None
    /\ km = None

\* clusterHotspots on the input, with the map order the run happens to have
ClusterHotspots ==
    /\ clOut = None
    /\ \E keyOrder \in gridKeyOrders(clIn.hotspots, clIn.config, clIn.zoomLevel) :
           clOut' = [clusters |-> clusterHotspots(clIn.hotspots, clIn.config, clIn.zoomLevel,
                                                  keyOrder)]
    /\ UNCHANGED <<sysVars, liveVars, clIn, km>>

NextCluster == ClusterHotspots

SpecCluster == InitCluster /\ [][NextCluster]_vars

\* the short inputs that distance mode clusters: mode distance, and mode
\* auto below twenty hotspots
DistanceInputs ==
    {in \in ClusterInputs :
        /\ Len(in.hotspots) <= MaxPoints
        /\ in.config.Mode \in {"distance", "auto"}}

InitDistance ==
    /\ SystemIdle
    /\ LiveIdle
    /\ clIn \in DistanceInputs
    /\ clOut = None
    /\ km = None

SpecDistance == InitDistance /\ [][NextCluster]_vars

----------------------------------------------------------------------------
(* kMeansClustering pass by pass *)

\* the inputs long enough for k-means to pass its early return, the
\* enumerated ones among them starting with a hotspot on each location
KMeansInputs ==
    {in \in ClusterInputs :
        /\ in.config.Mode = "kmeans"
        /\ Len(in.hotspots) >= KMeansPoints
        /\ \/ in.hotspots = SlowPoints
           \/ /\ in.hotspots[1].Hotspot.Location = [lat |-> 0, lon |-> 0]
              /\ in.hotspots[2].Hotspot.Location = [lat |-> 0, lon |-> 100]
              /\ in.hotspots[3].Hotspot.Location = [lat |-> 300, lon |-> 0]}

InitKMeans ==
    /\ SystemIdle
    /\ LiveIdle
    /\ clIn \in KMeansInputs
    /\ clOut = None
    /\ km = [pc |-> "start"]

\* the early return, or the initial centroids before the loop
KMeansStart ==
    /\ km.pc = "start"
    /\ IF kmSkips(clIn.hotspots, clIn.config, clIn.zoomLevel)
       THEN /\ km' = [pc |-> "done", passes |-> 0, converged |-> FALSE]
            /\ clOut' = [clusters |-> <<>>]
       ELSE /\ km' = [pc |-> "loop", iteration |-> 0, passes |-> 0, converged |-> FALSE,
                      centroids |-> initializeCentroids(clIn.hotspots,
                                        calculateOptimalK(Len(clIn.hotspots), clIn.zoomLevel))]
            /\ UNCHANGED clOut
    /\ UNCHANGED <<sysVars, liveVars, clIn>>

\* one pass of the loop body: break when converged, else iteration++
KMeansPass ==
    /\ km.pc = "loop"
    /\ kmLoopGuard(km.iteration)
    /\ LET r == kmIteration(clIn.hotspots, km.centroids)
       IN  km' = [pc |-> IF r.converged THEN "final" ELSE "loop",
                  iteration |-> IF r.converged THEN km.iteration ELSE km.iteration + 1,
                  passes |-> km.passes + 1,
                  converged |-> r.converged,
                  centroids |-> r.centroids]
    /\ UNCHANGED <<sysVars, liveVars, clIn, clOut>>

\* the loop condition fails: the loop ends without convergence
KMeansCap ==
    /\ km.pc = "loop"
    /\ ~kmLoopGuard(km.iteration)
    /\ km' = [km EXCEPT !.pc = "final"]
    /\ UNCHANGED <<sysVars, liveVars, clIn, clOut>>

\* the final assignment and the clusters returned
KMeansFinal ==
    /\ km.pc = "final"
    /\ clOut' = [clusters |-> kmFinalClusters(clIn.hotspots, clIn.config, clIn.zoomLevel,
                                              km.centroids)]
    /\ km' = [pc |-> "done", passes |-> km.passes, converged |-> km.converged]
    /\ UNCHANGED <<sysVars, liveVars, clIn>>

NextKMeans == KMeansStart \/ KMeansPass \/ KMeansCap \/ KMeansFinal

\* the function runs to its return once called: no step is postponed forever
SpecKMeans == InitKMeans /\ [][NextKMeans]_vars /\ WF_vars(NextKMeans)

----------------------------------------------------------------------------
(* The cache tier on its own: the methods of RedisService in any order *)

\* a hotspot near SpotNorth whose coordinates round to those of SpotNorth
SpotNorthNear == [lat |-> 100094, lon |-> 100000]

CachedHotspots == {[ID |-> 1, Location |-> SpotNorth], [ID |-> 2, Location |-> CenterA]}

CachedCenters == {SpotNorthNear, CenterA}

\* 2 km is not a radius of the invalidation, and 50.04 km is written as 50.0
CachedRadii == {2000, 50040}

CachedZoomLevels == {20, 21}

CachedPayloads == {JsonSlice(FALSE, <<>>)}

KeyFaults == {{}, {"keys"}}

IndexFaults == {{}, {"index"}}

InitCache ==
    /\ mockHotspots = EmptyMap
    /\ nextID = 0
    /\ redisAvailable \in BOOLEAN
    /\ regionCache = EmptyMap
    /\ clusterCache = EmptyMap
    /\ geoIndex = EmptyMap
    /\ covered = EmptyMap
    /\ resp = [op |-> "init", err |-> NoErr]
    /\ pages = None
    /\ EngineIdle
    /\ LiveIdle

NextCache ==
    \/ \E hotspot \in CachedHotspots, failed \in IndexFaults :
           AddHotspotToGeoIndex(hotspot, failed)
    \/ \E hotspot \in CachedHotspots, failed \in IndexFaults :
           RemoveHotspotFromGeoIndex(hotspot.ID, failed)
    \/ \E center \in CachedCenters, radius \in CachedRadii, payload \in CachedPayloads,
          failed \in KeyFaults :
           CacheHotspots(center, radius, payload, failed)
    \/ \E center \in CachedCenters, radius \in CachedRadii, zoomLevel \in CachedZoomLevels,
          payload \in CachedPayloads, failed \in KeyFaults :
           CacheClusterResults(center, radius, zoomLevel, payload, failed)
    \/ \E center \in CachedCenters, radius \in CachedRadii, failed \in KeyFaults :
           InvalidateRegionCache(center, radius, failed)
    \/ \E hotspot \in CachedHotspots, failed \in SUBSET {"index", "keys"} :
           InvalidateHotspotCache(hotspot, failed)

SpecCache == InitCache /\ [][NextCache]_vars

----------------------------------------------------------------------------
(* The hotspot store on its own: the operations of HotspotService *)

NoUpdate ==
    [Category |-> Nil, Location |-> Nil, MaxCapacity |-> Nil, IsPublic |-> Nil, Tags |-> Nil,
     IsActive |-> Nil]

\* a capacity of three, a move together with a capacity of one (below the
\* occupancy of a hotspot of two), and a reactivation
UpdateRequests ==
    {[NoUpdate EXCEPT !.MaxCapacity = Some(3)],
     [NoUpdate EXCEPT !.Location = Some(SpotSouth), !.MaxCapacity = Some(1)],
     [NoUpdate EXCEPT !.IsActive = Some(TRUE)]}

\* hotspots of capacity two and one
StoreCreateRequests == {req \in CreateRequests : req.Category = "cafe"}

InitStore ==
    /\ SystemIdle
    /\ EngineIdle
    /\ LiveIdle

NextStore ==
    \/ \E userID \in Users, req \in StoreCreateRequests : CreateHotspot(userID, req)
    \/ \E userID \in Users, hotspotID \in 1..MaxHotspots, req \in UpdateRequests :
           UpdateHotspot(userID, hotspotID, req)
    \/ \E userID \in Users, hotspotID \in 1..MaxHotspots : DeleteHotspot(userID, hotspotID)
    \/ \E userID \in Users, hotspotID \in 1..MaxHotspots : JoinHotspot(userID, hotspotID)
    \/ \E userID \in Users, hotspotID \in 1..MaxHotspots : LeaveHotspot(userID, hotspotID)
    \/ \E hotspotID \in 1..MaxHotspots : GetHotspot(hotspotID)

SpecStore == InitStore /\ [][NextStore]_vars

-----------------------------------------------------------------------------
(* The hotspot chat: ChatService and the WebSocket hub of the chat handler.  *)
(* A user holds at most one connection to a room.                            *)

MaxMessages == 2         \* messages sent to one hotspot

sendCapacity == 16       \* make(chan *models.ChatMessage, 16)
maxStoredMessages == 200
historyLimit == 50

MapGet(m, id, default) == IF id \in DOMAIN m THEN m[id] ELSE default

\* list[len(list)-n:] for a list longer than n
LastN(list, n) == IF Len(list) > n THEN SubSeq(list, Len(list) - n + 1, Len(list)) ELSE list

\* the membership loop over hotspot.Attendees
isMember(userID, hotspot) == InSeq(userID, hotspot.Attendees)

\* ChatService.SendMessage up to the message: the error it returns
SendMessageError(userID, hotspotID, content) ==
    IF content = "" THEN "message content cannot be empty"
    ELSE IF getHotspotMock(mockHotspots, hotspotID).err # NoErr
         THEN getHotspotMock(mockHotspots, hotspotID).err
    ELSE IF ~isMember(userID, mockHotspots[hotspotID])
         THEN "user is not a member of this hotspot"
    ELSE NoErr

saveMessageMock(store, msg) ==
    MapPut(store, msg.HotspotID,
           LastN(Append(MapGet(store, msg.HotspotID, <<>>), msg), maxStoredMessages))

\* the messages are stored in the order of their times, the sort keeps it
getRecentMessagesMock(store, hotspotID, limit) ==
    LastN(MapGet(store, hotspotID, <<>>), limit)

\* the membership check of the two chat endpoints
chatAccessError(userID, hotspotID, notMember) ==
    IF getHotspotMock(mockHotspots, hotspotID).err # NoErr THEN "Hotspot not found"
    ELSE IF ~isMember(userID, mockHotspots[hotspotID]) THEN notMember
    ELSE NoErr

\* the clients of a room whose channel takes one more message
receivers(room) == {cli \in DOMAIN room : Len(room[cli]) < sendCapacity}

\* for cli := range rooms[hotspotID] { select { case cli.send <- msg: default: } }
broadcast(room, msg) ==
    [cli \in DOMAIN room |-> IF cli \in receivers(room) THEN Append(room[cli], msg)
                             ELSE room[cli]]

\* ChatWebSocket up to the registration of the client
ChatWebSocket(userID, hotspotID) ==
    /\ userID \notin DOMAIN MapGet(rooms, hotspotID, EmptyMap)
    /\ LET err == chatAccessError(userID, hotspotID, "Not a member of this hotspot")
       IN  /\ resp' = [op |-> "chatConnect", err |-> err, id |-> hotspotID, user |-> userID]
           /\ rooms' = IF err # NoErr THEN rooms
                       ELSE MapPut(rooms, hotspotID,
                                   MapPut(MapGet(rooms, hotspotID, EmptyMap), userID, <<>>))
    /\ pages' = None
    /\ UNCHANGED <<storeVars, cacheVars, engVars, mockChatMessages, joins>>

\* one turn of the reader loop of a connected client
ChatReceive(userID, hotspotID, content) ==
    /\ userID \in DOMAIN MapGet(rooms, hotspotID, EmptyMap)
    /\ Len(MapGet(mockChatMessages, hotspotID, <<>>)) < MaxMessages
    /\ LET err == SendMessageError(userID, hotspotID, content)
           msg == [HotspotID |-> hotspotID, UserID |-> userID, Content |-> content]
       IN  IF err # NoErr
           THEN /\ resp' = [op |-> "chatSend", err |-> err, id |-> hotspotID,
                            user |-> userID, to |-> {}]
                /\ UNCHANGED <<rooms, mockChatMessages>>
           ELSE /\ mockChatMessages' = saveMessageMock(mockChatMessages, msg)
                /\ rooms' = [rooms EXCEPT ![hotspotID] = broadcast(@, msg)]
                /\ resp' = [op |-> "chatSend", err |-> NoErr, id |-> hotspotID,
                            user |-> userID, to |-> receivers(rooms[hotspotID])]
    /\ pages' = None
    /\ UNCHANGED <<storeVars, cacheVars, engVars, joins>>

\* one turn of the writer goroutine of a client: ws.WriteJSON(msg)
ChatWrite(userID, hotspotID) ==
    /\ userID \in DOMAIN MapGet(rooms, hotspotID, EmptyMap)
    /\ rooms[hotspotID][userID] # <<>>
    /\ resp' = [op |-> "chatWrite", err |-> NoErr, id |-> hotspotID, user |-> userID,
                msg |-> Head(rooms[hotspotID][userID])]
    /\ rooms' = [rooms EXCEPT ![hotspotID][userID] = Tail(@)]
    /\ pages' = None
    /\ UNCHANGED <<storeVars, cacheVars, engVars, mockChatMessages, joins>>

\* the end of the reader loop: the client leaves the room, the last one removes the room
ChatDisconnect(userID, hotspotID) ==
    /\ userID \in DOMAIN MapGet(rooms, hotspotID, EmptyMap)
    /\ rooms' = IF DOMAIN rooms[hotspotID] = {userID} THEN MapDel(rooms, hotspotID)
                ELSE [rooms EXCEPT ![hotspotID] = MapDel(@, userID)]
    /\ resp' = [op |-> "chatDisconnect", err |-> NoErr, id |-> hotspotID, user |-> userID]
    /\ pages' = None
    /\ UNCHANGED <<storeVars, cacheVars, engVars, mockChatMessages, joins>>

\* GET /hotspots/:id/chat/messages
GetRecentMessages(userID, hotspotID) ==
    /\ LET err == chatAccessError(userID, hotspotID, "Not a member")
       IN  resp' = [op |-> "chatHistory", err |-> err, id |-> hotspotID, user |-> userID,
                    messages |-> IF err # NoErr THEN <<>>
                                 ELSE getRecentMessagesMock(mockChatMessages, hotspotID,
                                                            historyLimit)]
    /\ pages' = None
    /\ UNCHANGED <<storeVars, cacheVars, engVars, liveVars>>

ChatContents == {"", "hi"}

\* a hotspot without a capacity limit
ChatCreateRequests ==
    {[Location |-> SpotNorth, Category |-> "cafe", MaxCapacity |-> 0, IsPublic |-> TRUE,
      Tags |-> {}]}

\* the room clients connect to: the one of the first hotspot
ChatRooms == {1}

NextChat ==
    \/ \E userID \in Users, req \in ChatCreateRequests : CreateHotspot(userID, req)
    \/ \E userID \in Users, hotspotID \in 1..MaxHotspots : JoinHotspot(userID, hotspotID)
    \/ \E userID \in Users, hotspotID \in 1..MaxHotspots : LeaveHotspot(userID, hotspotID)
    \/ \E userID \in Users, hotspotID \in ChatRooms : ChatWebSocket(userID, hotspotID)
    \/ \E userID \in Users, hotspotID \in ChatRooms, content \in ChatContents :
           ChatReceive(userID, hotspotID, content)
    \/ \E userID \in Users, hotspotID \in ChatRooms : ChatWrite(userID, hotspotID)
    \/ \E userID \in Users, hotspotID \in ChatRooms : ChatDisconnect(userID, hotspotID)
    \/ \E userID \in Users, hotspotID \in ChatRooms :
           GetRecentMessages(userID, hotspotID)

SpecChat == InitStore /\ [][NextChat]_vars

-----------------------------------------------------------------------------
(* Joining and leaving with three users *)

NextMembers ==
    \/ \E userID \in Members, req \in ChatCreateRequests : CreateHotspot(userID, req)
    \/ \E userID \in Members, hotspotID \in 1..MaxHotspots : JoinHotspot(userID, hotspotID)
    \/ \E userID \in Members, hotspotID \in 1..MaxHotspots : LeaveHotspot(userID, hotspotID)

SpecMembers == InitStore /\ [][NextMembers]_vars

-----------------------------------------------------------------------------
(* JoinHotspot called from several requests at once.  Each request runs in  *)
(* its own goroutine, nothing guards mockHotspots or the hotspot a call     *)
(* holds a pointer to, so the reads and writes of the calls interleave; a   *)
(* user has at most one call, and joins[user] is its position and locals.   *)

\* the hotspot a call works on, through the pointer getHotspotMock returned
Joining(userID) == mockHotspots[joins[userID].id]

JoinAt(userID, pc) == userID \in DOMAIN joins /\ joins[userID].pc = pc

\* the process has not been stopped by the runtime
Running == resp.op # "fatal"

\* the call up to the capacity check: GetHotspot and the three checks
JoinCall(userID, hotspotID) ==
    /\ Running
    /\ userID \notin DOMAIN joins
    /\ LET err == JoinError(userID, hotspotID)
       IN  IF err # NoErr
           THEN /\ joins' = MapPut(joins, userID,
                                   [pc |-> "done", id |-> hotspotID, err |-> err,
                                    attendees |-> <<>>])
                /\ resp' = [op |-> "join", err |-> err, id |-> hotspotID]
           ELSE /\ joins' = MapPut(joins, userID,
                                   [pc |-> "read", id |-> hotspotID, err |-> NoErr,
                                    attendees |-> <<>>])
                /\ resp' = [op |-> "joining", err |-> NoErr, id |-> hotspotID]
    /\ pages' = None
    /\ UNCHANGED <<storeVars, cacheVars, engVars, rooms, mockChatMessages>>

\* append(hotspot.Attendees, userID): the slice is read
JoinRead(userID) ==
    /\ Running
    /\ JoinAt(userID, "read")
    /\ joins' = [joins EXCEPT ![userID].pc = "append",
                              ![userID].attendees = Joining(userID).Attendees]
    /\ resp' = [op |-> "joining", err |-> NoErr, id |-> joins[userID].id]
    /\ pages' = None
    /\ UNCHANGED <<storeVars, cacheVars, engVars, rooms, mockChatMessages>>

\* hotspot.Attendees = the slice read, with userID appended
JoinAppend(userID) ==
    /\ Running
    /\ JoinAt(userID, "append")
    /\ mockHotspots' = [mockHotspots EXCEPT ![joins[userID].id].Attendees =
                            Append(joins[userID].attendees, userID)]
    /\ joins' = [joins EXCEPT ![userID].pc = "count"]
    /\ resp' = [op |-> "joining", err |-> NoErr, id |-> joins[userID].id]
    /\ pages' = None
    /\ UNCHANGED <<nextID, cacheVars, engVars, rooms, mockChatMessages>>

\* hotspot.CurrentOccupancy = len(hotspot.Attendees)
JoinCount(userID) ==
    /\ Running
    /\ JoinAt(userID, "count")
    /\ mockHotspots' = [mockHotspots EXCEPT ![joins[userID].id].CurrentOccupancy =
                            Len(Joining(userID).Attendees)]
    /\ joins' = [joins EXCEPT ![userID].pc = "store"]
    /\ resp' = [op |-> "joining", err |-> NoErr, id |-> joins[userID].id]
    /\ pages' = None
    /\ UNCHANGED <<nextID, cacheVars, engVars, rooms, mockChatMessages>>

\* updateHotspotMock: the map entry is set to the pointer it already holds
JoinStore(userID) ==
    /\ Running
    /\ JoinAt(userID, "store")
    /\ mockHotspots' = updateHotspotMock(mockHotspots, Joining(userID))
    /\ joins' = [joins EXCEPT ![userID].pc = "done"]
    /\ resp' = [op |-> "join", err |-> NoErr, id |-> joins[userID].id]
    /\ pages' = None
    /\ UNCHANGED <<nextID, cacheVars, engVars, rooms, mockChatMessages>>

\* two calls write the map at once: the runtime may stop the process with
\* "fatal error: concurrent map writes"
JoinFatal ==
    /\ Running
    /\ \E u1, u2 \in DOMAIN joins : u1 # u2 /\ JoinAt(u1, "store") /\ JoinAt(u2, "store")
    /\ resp' = [op |-> "fatal", err |-> "concurrent map writes"]
    /\ pages' = None
    /\ UNCHANGED <<storeVars, cacheVars, engVars, liveVars>>

\* hotspots of capacity two: one free spot beside the creator
JoinCreateRequests == {req \in CreateRequests : req.MaxCapacity = 2 /\ req.Category = "cafe"}

NextJoin ==
    \/ \E userID \in Users, req \in JoinCreateRequests :
           Running /\ CreateHotspot(userID, req)
    \/ \E userID \in Members, hotspotID \in 1..MaxHotspots : JoinCall(userID, hotspotID)
    \/ \E userID \in Members : JoinRead(userID)
    \/ \E userID \in Members : JoinAppend(userID)
    \/ \E userID \in Members : JoinCount(userID)
    \/ \E userID \in Members : JoinStore(userID)
    \/ JoinFatal

SpecJoin == InitStore /\ [][NextJoin]_vars

-----------------------------------------------------------------------------
(* The optimized search from the cache check on, for any result of the     *)
(* query of step 2: the query of the program returns the empty list only,  *)
(* so the cluster branch of step 3 and a cache that holds hotspots or       *)
(* clusters are reached by handing step 3 a list of candidates              *)

LookupConfig == [Mode |-> "grid", MinClusterSize |-> 2, MaxClusterSize |-> 100, GridSize |-> 0]

\* three hotspots on one spot, three that share no grid cell, and one hotspot
LookupRuns ==
    {PointsAt(<<[lat |-> 0, lon |-> 0], [lat |-> 0, lon |-> 0], [lat |-> 0, lon |-> 0]>>),
     PointsAt(<<[lat |-> 0, lon |-> 0], [lat |-> 500000, lon |-> 0],
                [lat |-> 1000000, lon |-> 1000000]>>),
     PointsAt(<<[lat |-> 0, lon |-> 0]>>)}

LookupRequests ==
    {[Center |-> CenterA, Radius |-> 1000, ZoomLevel |-> z, Filters |-> NoFilters,
      Pagination |-> [Limit |-> 1, Offset |-> 0],
      Clustering |-> [LookupConfig EXCEPT !.Mode = m]] : m \in {"none", "grid"}, z \in {12, 13}}

\* the key and the cache the cache check of a request reads
lookupKey(req) ==
    IF req.Clustering.Mode # "none"
    THEN getClusterKey(req.Center, req.Radius, req.ZoomLevel)
    ELSE getRegionKey(req.Center, req.Radius)

lookupCache(req) == IF req.Clustering.Mode # "none" THEN clusterCache ELSE regionCache

\* steps 3 and 4 of SearchHotspotsOptimized after a cache check that missed,
\* for the list hotspots as the result of step 2
ClusteringStep(raw, hotspots, keyOrder, perIteration) ==
    /\ handlerError(raw) = NoErr
    /\ LET req == normalizeRequest(raw)
       IN  /\ ~(IsAvailable /\ IsHit(lookupCache(req), lookupKey(req)))
           /\ optMiss(req, hotspots, keyOrder, perIteration, {})
    /\ pages' = None
    /\ UNCHANGED <<storeVars, redisAvailable, geoIndex, engVars, liveVars>>

NextLookup ==
    \/ \E raw \in LookupRequests, hotspots \in LookupRuns :
       \E keyOrder \in gridKeyOrders(hotspots, raw.Clustering, raw.ZoomLevel) :
       \E perIteration \in (IF Len(hotspots) < 2 THEN {TRUE} ELSE BOOLEAN) :
           ClusteringStep(raw, hotspots, keyOrder, perIteration)
    \/ \E raw \in LookupRequests, failed \in SearchFaults :
           SearchHotspotsOptimized(raw, failed)
    \/ \E key \in DOMAIN regionCache \cup DOMAIN clusterCache : ExpireCacheEntry(key)

SpecLookup == Init /\ [][NextLookup]_vars

----------------------------------------------------------------------------
(* The handler of the optimized search on requests with and without defaults *)

\* a centre on the equator
SpotEquator == [lat |-> 0, lon |-> 100000]

ValidationRequests ==
    {[Center |-> c, Radius |-> r, ZoomLevel |-> z, Filters |-> NoFilters,
      Pagination |-> [Limit |-> l, Offset |-> 0],
      Clustering |-> [Mode |-> m, MinClusterSize |-> 0, MaxClusterSize |-> 0, GridSize |-> 0]] :
        c \in {CenterA, ZeroLocation, SpotEquator}, r \in {0, 1000}, z \in {0, 12},
        l \in {0, 1, 2000}, m \in {""}}

NextValidation ==
    \/ \E raw \in ValidationRequests, failed \in SearchFaults :
           SearchHotspotsOptimized(raw, failed)
    \/ \E key \in DOMAIN regionCache \cup DOMAIN clusterCache : ExpireCacheEntry(key)

SpecValidation == Init /\ [][NextValidation]_vars

----------------------------------------------------------------------------
(* Mutations of the store next to searches centred on the hotspots *)

\* searches of one kilometre around the places hotspots are created at and moved to
MutationSearches ==
    {[Center |-> c, Radius |-> 1000, ZoomLevel |-> 12, Filters |-> NoFilters,
      Pagination |-> [Limit |-> 1, Offset |-> 0],
      Clustering |-> [Mode |-> "none", MinClusterSize |-> 2, MaxClusterSize |-> 100,
                      GridSize |-> 0]] :
        c \in {SpotNorth, SpotSouth}}

\* a move and a reactivation
MutationUpdates == {req \in UpdateRequests : req.Location # Nil \/ req.IsActive # Nil}

NextMutation ==
    \/ \E userID \in Users, req \in StoreCreateRequests : CreateHotspot(userID, req)
    \/ \E userID \in Users, hotspotID \in 1..MaxHotspots, req \in MutationUpdates :
           UpdateHotspot(userID, hotspotID, req)
    \/ \E userID \in Users, hotspotID \in 1..MaxHotspots : DeleteHotspot(userID, hotspotID)
    \/ \E userID \in Users, hotspotID \in 1..MaxHotspots : LeaveHotspot(userID, hotspotID)
    \/ \E raw \in MutationSearches : SearchHotspotsOptimized(raw, {})
    \/ \E key \in DOMAIN regionCache \cup DOMAIN clusterCache : ExpireCacheEntry(key)

SpecMutation == Init /\ [][NextMutation]_vars

----------------------------------------------------------------------------
(* Properties of the search paths *)

\* the identifiers an optimized response returns, alone or inside a cluster
ReturnedIDs ==
    {resp.Hotspots[i].Hotspot.ID : i \in 1..Len(resp.Hotspots)}
    \cup UNION {Range(resp.Clusters[i].Hotspots) : i \in 1..Len(resp.Clusters)}

IsOptimizedResponse == resp.op = "searchOptimized" /\ resp.err = NoErr

\* the stored hotspots a query matches: inside the radius and passing the filters
Matches(req) ==
    {id \in DOMAIN mockHotspots :
        /\ calculateDistance(req.Center, mockHotspots[id].Location) <= req.Radius
        /\ gsKeeps(mockHotspots[id], req.Filters)}

\* the pages a correct search may return for a request
ExpectedPages(req) ==
    {gsPaginate(sorted, req.Pagination) :
        sorted \in SortOutcomes({WithDistance(mockHotspots[id], req.Center) : id \in Matches(req)})}

\* C1: every hotspot a search returns, direct or optimized, alone or as a
\* cluster member, lies within the requested radius of the request's center.
RadiusContainment ==
    /\ resp.op = "search" =>
           \A i \in 1..Len(resp.res.Hotspots) :
               calculateDistance(resp.req.Center, resp.res.Hotspots[i].Hotspot.Location)
                   <= resp.req.Radius
    /\ IsOptimizedResponse =>
           /\ \A i \in 1..Len(resp.Hotspots) :
                  calculateDistance(resp.req.Center, resp.Hotspots[i].Hotspot.Location)
                      <= resp.req.Radius
           /\ \A id \in ReturnedIDs \cap DOMAIN mockHotspots :
                  calculateDistance(resp.req.Center, mockHotspots[id].Location)
                      <= resp.req.Radius

\* a search returned hotspots while a stored hotspot that passes every other
\* filter of the request lies outside the radius
RadiusContainmentWitness ==
    /\ resp.op = "search"
    /\ Len(resp.res.Hotspots) > 0
    /\ \E id \in DOMAIN mockHotspots :
           /\ calculateDistance(resp.req.Center, mockHotspots[id].Location) > resp.req.Radius
           /\ ~(resp.req.Category # Nil /\ mockHotspots[id].Category # resp.req.Category[1])
           /\ ~(resp.req.IsActive # Nil /\ mockHotspots[id].IsActive # resp.req.IsActive[1])
           /\ ~(resp.req.HasAvailableSpots # Nil /\ IsFull(mockHotspots[id]))

GracefulDegradation ==
    (IsOptimizedResponse /\ ~redisAvailable) =>
        /\ ~resp.CacheHit
        /\ resp.req.Clustering.Mode = "none" => resp.Hotspots \in ExpectedPages(resp.req)

\* C5: on a cache miss hasMore is true exactly when offset + limit is below
\* the number of hotspots that match the query.
HasMoreMatchesTotal ==
    (IsOptimizedResponse /\ ~resp.CacheHit) =>
        (resp.HasMore <=>
            resp.req.Pagination.Offset + resp.req.Pagination.Limit
                < Cardinality(Matches(resp.req)))

PageIDs(res) == {res.Hotspots[i].Hotspot.ID : i \in 1..Len(res.Hotspots)}

----------------------------------------------------------------------------
(* Properties of the clustering engine *)

Clustered == "clusters" \in DOMAIN clOut

\* the clustering function that ran for the input
RunMode == effectiveMode(clIn.config, Len(clIn.hotspots))

InputIDs == {clIn.hotspots[i].Hotspot.ID : i \in 1..Len(clIn.hotspots)}

ClusterMembers(i) == Range(clOut.clusters[i].Hotspots)

\* C7: in grid mode and in distance mode the members of the emitted clusters
\* are input hotspots, and no input hotspot appears twice, neither in two
\* clusters nor twice in one.
MembershipConservation ==
    (Clustered /\ RunMode \in {"grid", "distance"}) =>
        /\ \A i \in 1..Len(clOut.clusters) :
               /\ ClusterMembers(i) \subseteq InputIDs
               /\ Cardinality(ClusterMembers(i)) = Len(clOut.clusters[i].Hotspots)
        /\ \A i, j \in 1..Len(clOut.clusters) :
               i # j => ClusterMembers(i) \cap ClusterMembers(j) = {}

\* distance mode emitted two clusters, one of them with an absorbed hotspot
MembershipConservationWitness ==
    /\ Clustered
    /\ RunMode = "distance"
    /\ Len(clOut.clusters) = 2
    /\ \E i \in 1..2 : Cardinality(ClusterMembers(i)) = 2

\* C8: in every clustering mode no emitted cluster has fewer hotspots than
\* the configured minimum cluster size.
MinimumClusterSize ==
    Clustered =>
        \A i \in 1..Len(clOut.clusters) :
            /\ clOut.clusters[i].HotspotCount >= clIn.config.MinClusterSize
            /\ Len(clOut.clusters[i].Hotspots) >= clIn.config.MinClusterSize

\* k-means emitted a cluster and dropped a group below the minimum
MinimumClusterSizeWitness ==
    /\ Clustered
    /\ RunMode = "kmeans"
    /\ Len(clOut.clusters) > 0
    /\ UNION {ClusterMembers(i) : i \in 1..Len(clOut.clusters)} # InputIDs

\* the grid cell of a location: the floored coordinates themselves
GridCellOf(location, gridSize) ==
    <<FloorTo(location.lat, gridSize), FloorTo(location.lon, gridSize)>>

\* the input hotspots of a grid cell
CellIDs(cell, gridSize) ==
    {clIn.hotspots[i].Hotspot.ID :
        i \in {n \in 1..Len(clIn.hotspots) :
                GridCellOf(clIn.hotspots[n].Hotspot.Location, gridSize) = cell}}

\* the member sets grid mode has to emit: one per occupied cell at the minimum
CellsAtMinimum(gridSize) ==
    {CellIDs(cell, gridSize) :
        cell \in {c \in {GridCellOf(clIn.hotspots[i].Hotspot.Location, gridSize) :
                           i \in 1..Len(clIn.hotspots)} :
                      Cardinality(CellIDs(c, gridSize)) >= clIn.config.MinClusterSize}}

\* C9: grid mode emits exactly one cluster per occupied grid cell holding at
\* least the minimum number of points, with exactly the points of the cell,
\* and the points of smaller cells are in no cluster.
GridOneClusterPerCell ==
    (Clustered /\ RunMode = "grid") =>
        LET gridSize == calculateOptimalGridSize(clIn.zoomLevel, clIn.config.GridSize)
        IN  /\ Len(clOut.clusters) = Cardinality(CellsAtMinimum(gridSize))
            /\ {ClusterMembers(i) : i \in 1..Len(clOut.clusters)} = CellsAtMinimum(gridSize)

\* C10: k-means terminates on every input: the assign/update loop makes at
\* most maxIterations passes and the function then returns its clusters.
KMeansTerminates ==
    /\ [](km.pc # "start" => km.passes <= maxIterations)
    /\ <>(km.pc = "done" /\ Clustered)

\* the loop made all its passes without converging and clusters were returned
KMeansTerminatesWitness ==
    /\ km.pc = "done"
    /\ km.passes = maxIterations
    /\ ~km.converged
    /\ Clustered
    /\ Len(clOut.clusters) > 0

\* the k of the documentation: sqrt(n / 2) adjusted by the zoom level, raised
\* to 2 and then cut to n / 3
DocumentedK(n, zoomLevel) ==
    LET root     == CHOOSE r \in 0..n : r * r * 2 <= n /\ (r + 1) * (r + 1) * 2 > n
        adjusted == IF zoomLevel > 15 THEN 2 * root
                    ELSE IF zoomLevel < 10 THEN root \div 2
                    ELSE root
        raised   == IF adjusted < 2 THEN 2 ELSE adjusted
    IN  Min2(raised, n \div 3)

\* C11 as stated: k-means on n points produces between 2 and n / 3 clusters.
KMeansCountWithinBounds ==
    (Clustered /\ RunMode = "kmeans" /\ Len(clIn.hotspots) >= 6) =>
        /\ 2 <= Len(clOut.clusters)
        /\ Len(clOut.clusters) <= Len(clIn.hotspots) \div 3

\* C11, amended: k is the documented clamp, it lies within [2, n / 3] from
\* six points on, and k-means emits at most k clusters (so at most n / 3);
\* it may emit fewer than two.
KMeansCountAtMostK ==
    (Clustered /\ RunMode = "kmeans") =>
        LET n == Len(clIn.hotspots)
            k == calculateOptimalK(n, clIn.zoomLevel)
        IN  /\ k = DocumentedK(n, clIn.zoomLevel)
            /\ k <= n \div 3
            /\ n >= 6 => k >= 2
            /\ Len(clOut.clusters) <= k

\* k-means on 150 hotspots at zoom 12 ran with k = 8 and emitted clusters
KMeansCountWitness ==
    /\ Clustered
    /\ RunMode = "kmeans"
    /\ Len(clIn.hotspots) = 150
    /\ clIn.zoomLevel = 12
    /\ calculateOptimalK(150, 12) = 8
    /\ Len(clOut.clusters) \in 2..8


----------------------------------------------------------------------------
(* Properties of the cache tier *)

\* C12: invalidation is idempotent.  InvalidateHotspotCache never returns an
\* error, whether or not the keys and the index entry exist, and a call that
\* directly follows a call for the same hotspot which reached the server
\* leaves the region cache, the cluster cache and the geo index as that
\* first call left them.
InvalidationIdempotent ==
    resp.op = "InvalidateHotspotCache" =>
        /\ resp.err = NoErr
        /\ resp.again => CacheState = resp.before

\* a second invalidation in a row, of a hotspot whose first invalidation
\* removed it from the index and removed a cached entry
InvalidationIdempotentWitness ==
    /\ resp.op = "InvalidateHotspotCache"
    /\ resp.again
    /\ redisAvailable
    /\ resp.failed = {}
    /\ resp.arg.ID \notin DOMAIN geoIndex
    /\ DOMAIN regionCache \cup DOMAIN clusterCache # {}

ProbeCenters == {SpotNorth, SpotNorthNear, CenterA}

ProbeRadii == {100, 2000, 50000}

\* C13: after InvalidateHotspotCache(e) with the cache available and every
\* command delivered, no query of the geo index returns e's identifier, for
\* each radius of 1, 5, 10, 25 and 50 km the region entry and the cluster
\* entries of the zoom levels 1..20 keyed at e's rounded location are
\* misses, and the entries under every other key are as they were.
InvalidationPostcondition ==
    (resp.op = "InvalidateHotspotCache" /\ redisAvailable /\ resp.failed = {}) =>
        LET e        == resp.arg
            radii    == {1000, 5000, 10000, 25000, 50000}
            regions  == {getRegionKey(e.Location, r) : r \in radii}
            clusters == {getClusterKey(e.Location, r, z) : r \in radii, z \in 1..20}
        IN  /\ \A c \in ProbeCenters, r \in ProbeRadii :
                   \A ids \in GetNearbyHotspotIDs(c, r) : ~InSeq(e.ID, ids)
            /\ \A key \in regions : GetCached(regionCache, key).null
            /\ \A key \in clusters : GetCached(clusterCache, key).null
            /\ DOMAIN regionCache = DOMAIN resp.before.regionCache \ regions
            /\ DOMAIN clusterCache = DOMAIN resp.before.clusterCache \ clusters
            /\ \A key \in DOMAIN regionCache : regionCache[key] = resp.before.regionCache[key]
            /\ \A key \in DOMAIN clusterCache : clusterCache[key] = resp.before.clusterCache[key]
            /\ \A id \in DOMAIN resp.before.geoIndex \ {e.ID} :
                   id \in DOMAIN geoIndex /\ geoIndex[id] = resp.before.geoIndex[id]

\* an invalidation that took the hotspot out of the index and a 50 km entry
\* out of the cache, and left an entry under another key
InvalidationPostconditionWitness ==
    /\ resp.op = "InvalidateHotspotCache"
    /\ redisAvailable
    /\ resp.failed = {}
    /\ resp.arg.ID \in DOMAIN resp.before.geoIndex
    /\ getRegionKey(resp.arg.Location, 50000) \in DOMAIN resp.before.regionCache
    /\ DOMAIN regionCache \cup DOMAIN clusterCache # {}


\* C15: a search during which commands of the cache failed, the cache having
\* been available at the start, returns no error and cacheHit=false: a
\* failed read is a miss, after a failed index query the result is the one
\* of the fallback search, and a failed write leaves the cache as it was.
CacheFailureSwallowed ==
    (resp.op = "searchOptimized" /\ "failed" \in DOMAIN resp /\ resp.failed # {}) =>
        /\ resp.err = NoErr
        /\ resp.CacheHit = FALSE
        /\ "index" \in resp.failed =>
               resp.TotalCount = Len(traditionalGeospatialSearch(resp.req))

\* a search whose read, index query and write all failed while the entry of
\* its region was in the cache
CacheFailureSwallowedWitness ==
    /\ resp.op = "searchOptimized"
    /\ "failed" \in DOMAIN resp
    /\ resp.failed = {"read", "index", "write"}
    /\ resp.req.Clustering.Mode = "none"
    /\ IsHit(regionCache, getRegionKey(resp.req.Center, resp.req.Radius))
    /\ mockHotspots # EmptyMap


----------------------------------------------------------------------------
(* Properties of the hotspot store *)

\* C16: every stored hotspot has currentOccupancy equal to the number of its
\* attendees, whatever creates, updates, joins and leaves came before.
OccupancyInvariant ==
    \A id \in DOMAIN mockHotspots :
        mockHotspots[id].CurrentOccupancy = Len(mockHotspots[id].Attendees)

\* a hotspot two users are in, after a join that followed an update
OccupancyInvariantWitness ==
    /\ resp.op = "join"
    /\ resp.err = NoErr
    /\ Len(mockHotspots[resp.id].Attendees) = 2
    /\ mockHotspots[resp.id].MaxCapacity = 3

\* C17: every stored hotspot with maxCapacity > 0 has currentOccupancy <=
\* maxCapacity; a join went through only if a spot was free before it, and an
\* update went through only if it left maxCapacity at or above the occupancy.
CapacityInvariant ==
    /\ \A id \in DOMAIN mockHotspots :
           mockHotspots[id].MaxCapacity > 0 =>
               mockHotspots[id].CurrentOccupancy <= mockHotspots[id].MaxCapacity
    /\ (resp.op = "join" /\ resp.err = NoErr) =>
           (mockHotspots[resp.id].MaxCapacity > 0 =>
                Len(mockHotspots[resp.id].Attendees) <= mockHotspots[resp.id].MaxCapacity)
    /\ (resp.op = "update" /\ resp.err = NoErr) =>
           mockHotspots[resp.id].MaxCapacity >= mockHotspots[resp.id].CurrentOccupancy

\* a join on a full hotspot was rejected
CapacityInvariantWitness ==
    /\ resp.op = "join"
    /\ resp.err = "hotspot is at maximum capacity"
    /\ mockHotspots[resp.id].CurrentOccupancy = mockHotspots[resp.id].MaxCapacity

\* C18: every active hotspot has its owner (createdBy) among its attendees.
OwnerMembership ==
    \A id \in DOMAIN mockHotspots :
        mockHotspots[id].IsActive =>
            InSeq(mockHotspots[id].CreatedBy, mockHotspots[id].Attendees)

\* C19: a leave of the last member leaves the hotspot in the store,
\* retrievable by its identifier, inactive and with no attendee; a hotspot
\* leaves the store only in a delete by its owner that returned no error.
LastLeaveDeactivates ==
    [][\A id \in DOMAIN mockHotspots :
          /\ (/\ resp'.op = "leave" /\ resp'.err = NoErr /\ resp'.id = id
              /\ Len(mockHotspots[id].Attendees) = 1) =>
                 /\ getHotspotMock(mockHotspots', id).err = NoErr
                 /\ getHotspotMock(mockHotspots', id).hotspot.IsActive = FALSE
                 /\ getHotspotMock(mockHotspots', id).hotspot.Attendees = <<>>
          /\ id \notin DOMAIN mockHotspots' =>
                 /\ resp'.op = "delete" /\ resp'.err = NoErr /\ resp'.id = id
                 /\ resp'.by = mockHotspots[id].CreatedBy]_vars

\* the hotspot of a last leave, read back by its identifier
LastLeaveDeactivatesWitness ==
    /\ resp.op = "get"
    /\ resp.err = NoErr
    /\ resp.hotspot.Attendees = <<>>
    /\ resp.hotspot.IsActive = FALSE


----------------------------------------------------------------------------
(* Properties of the request handler *)

\* C20: a request of the optimized search without centre coordinates is
\* answered with an error and touches neither the caches nor the index, and
\* every request with a centre is accepted, with a radius <= 0 replaced by
\* 10 km, a zoom <= 0 by 10, a limit <= 0 by 50 and a limit > 1000 by 1000.
RequestValidation ==
    [][\A raw \in ValidationRequests, failed \in SearchFaults :
          SearchHotspotsOptimized(raw, failed) =>
              IF raw.Center = ZeroLocation
              THEN /\ resp'.err # NoErr
                   /\ UNCHANGED <<regionCache, clusterCache, geoIndex>>
              ELSE /\ resp'.err = NoErr
                   /\ resp'.req.Center = raw.Center
                   /\ resp'.req.Radius = (IF raw.Radius <= 0 THEN 10000 ELSE raw.Radius)
                   /\ resp'.req.ZoomLevel = (IF raw.ZoomLevel <= 0 THEN 10 ELSE raw.ZoomLevel)
                   /\ resp'.req.Pagination.Limit =
                          (IF raw.Pagination.Limit <= 0 THEN 50
                           ELSE IF raw.Pagination.Limit > 1000 THEN 1000
                           ELSE raw.Pagination.Limit)]_vars


----------------------------------------------------------------------------
(* Properties of the store and the cache tier together *)

\* C21: with the cache available, after a create, a delete, or an update
\* that changes the location or the active flag, the geo index holds only
\* identifiers of stored hotspots, at their current location (so no query of
\* the index returns a deleted hotspot), and the hotspot has been
\* invalidated: for the radii of 1, 5, 10, 25 and 50 km no region entry and
\* no cluster entry keyed at its location is left in the cache.
GeoIndexConsistency ==
    [][(/\ redisAvailable
        /\ resp'.op \in {"create", "update", "delete"}
        /\ resp'.err = NoErr
        /\ resp'.op = "update" =>
               \/ mockHotspots'[resp'.id].Location # mockHotspots[resp'.id].Location
               \/ mockHotspots'[resp'.id].IsActive # mockHotspots[resp'.id].IsActive) =>
           LET id    == resp'.id
               locs  == {mockHotspots[i].Location : i \in DOMAIN mockHotspots \cap {id}}
                        \cup {mockHotspots'[i].Location : i \in DOMAIN mockHotspots' \cap {id}}
               radii == {1000, 5000, 10000, 25000, 50000}
           IN  /\ \A i \in DOMAIN geoIndex' :
                      i \in DOMAIN mockHotspots' /\ geoIndex'[i] = mockHotspots'[i].Location
               /\ \A c \in locs, r \in radii :
                      \A ids \in GetNearbyHotspotIDs(c, r)' :
                          \A k \in 1..Len(ids) : ids[k] \in DOMAIN mockHotspots'
               /\ \A c \in locs, r \in radii :
                      /\ getRegionKey(c, r) \notin DOMAIN regionCache'
                      /\ \A z \in 1..20 : getClusterKey(c, r, z) \notin DOMAIN clusterCache']_vars

-----------------------------------------------------------------------------
(* Properties of the chat *)

\* C22: chat access is limited to members.  A message is stored only from a
\* sender who is an attendee of the hotspot, the broadcast hands it only to
\* the connections of users who are attendees at that moment (also when a
\* user left the hotspot with the connection open), and the history is
\* returned only to an attendee.
ChatMembersOnly ==
    /\ resp.op = "chatSend" /\ resp.err = NoErr =>
            /\ resp.id \in DOMAIN mockHotspots
            /\ \A userID \in resp.to \cup {resp.user} :
                   isMember(userID, mockHotspots[resp.id])
    /\ resp.op = "chatHistory" /\ resp.err = NoErr =>
            /\ resp.id \in DOMAIN mockHotspots
            /\ isMember(resp.user, mockHotspots[resp.id])

-----------------------------------------------------------------------------
(* Properties of the cache check and of the clustering step *)

\* C23: the cache check reads the cluster cache at (center, radius, zoom)
\* when clustering is requested and the region cache at (center, radius)
\* otherwise, and nothing else: the search is a hit exactly when that entry
\* is there and readable; a hit has cacheHit = true and the cached content,
\* writes neither the cache nor the store nor the index, and a cluster hit
\* has no individual results.
CacheCheckStep ==
    [][resp'.op = "searchOptimized" /\ resp'.err = NoErr =>
        LET req   == resp'.req
            key   == lookupKey(req)
            cache == lookupCache(req)
            found == /\ redisAvailable
                     /\ "read" \notin resp'.failed
                     /\ key \in DOMAIN cache
                     /\ ~cache[key].null
        IN  /\ resp'.CacheHit = found
            /\ found =>
                  /\ UNCHANGED <<storeVars, cacheVars>>
                  /\ ~resp'.HasMore
                  /\ IF req.Clustering.Mode # "none"
                     THEN /\ resp'.Clusters = cache[key].items
                          /\ resp'.Hotspots = <<>>
                          /\ resp'.TotalCount = Len(cache[key].items)
                     ELSE /\ resp'.Clusters = <<>>
                          /\ resp'.Hotspots =
                                 convertToHotspotsWithDistance(cache[key].items, req.Center)
                          /\ resp'.TotalCount = Len(cache[key].items)]_vars

\* a cluster hit with clusters while the region cache holds a hotspot for
\* the same region, and a region hit with a hotspot while the cluster cache
\* holds clusters
CacheCheckStepWitness ==
    /\ resp.op = "searchOptimized" /\ resp.err = NoErr /\ resp.CacheHit
    /\ resp.req.Clustering.Mode = "grid"
    /\ resp.Clusters # <<>> /\ resp.Hotspots = <<>>
    /\ getRegionKey(resp.req.Center, resp.req.Radius) \in DOMAIN regionCache
    /\ regionCache[getRegionKey(resp.req.Center, resp.req.Radius)].items # <<>>

\* C24: a cached empty result is a hit, not a miss: when the entry a search
\* reads is there and holds an empty list (of hotspots or of clusters), the
\* lookup returns it and the search is served from the cache.
EmptyResultIsHit ==
    [][(/\ resp'.op = "searchOptimized" /\ resp'.err = NoErr
        /\ redisAvailable /\ "read" \notin resp'.failed
        /\ lookupKey(resp'.req) \in DOMAIN lookupCache(resp'.req)
        /\ lookupCache(resp'.req)[lookupKey(resp'.req)].items = <<>>)
       => resp'.CacheHit /\ resp'.TotalCount = 0]_vars

-----------------------------------------------------------------------------
(* Properties of distance mode *)

\* the threshold distance of a zoom level: 25, 5, 1 and 0.2 km
ThresholdOfZoom(zoomLevel) ==
    CASE zoomLevel <= 5  -> 25000
      [] zoomLevel > 5 /\ zoomLevel <= 10 -> 5000
      [] zoomLevel > 10 /\ zoomLevel <= 15 -> 1000
      [] OTHER -> 200

LocationOf(id) == clIn.hotspots[id].Hotspot.Location

\* C26: in distance mode the hotspots are visited in input order: the seeds
\* of the emitted clusters come in input order and each seed comes before
\* the other members of its cluster; every member other than the seed is
\* within the threshold distance of the zoom level from the seed and in no
\* earlier cluster; no cluster has more than maxClusterSize members.
DistanceModeClusters ==
    (Clustered /\ RunMode = "distance") =>
        /\ \A i \in 1..Len(clOut.clusters) :
               LET members == clOut.clusters[i].Hotspots
               IN  /\ Len(members) <= clIn.config.MaxClusterSize
                   /\ clOut.clusters[i].HotspotCount = Len(members)
                   /\ \A m \in 2..Len(members) :
                          /\ members[1] < members[m]
                          /\ calculateDistance(LocationOf(members[1]), LocationOf(members[m]))
                                 <= ThresholdOfZoom(clIn.zoomLevel)
                          /\ \A j \in 1..(i - 1) : ~InSeq(members[m], clOut.clusters[j].Hotspots)
        /\ \A i \in 1..Len(clOut.clusters) :
               \A j \in 1..(i - 1) :
                   clOut.clusters[j].Hotspots[1] < clOut.clusters[i].Hotspots[1]

\* at zoom 16 a seed absorbed the hotspot 111 m away and left out the one at
\* 278 m, and a cluster full at two members left a hotspot within reach to
\* the next seed
DistanceModeClustersWitness ==
    /\ Clustered /\ RunMode = "distance" /\ Len(clIn.hotspots) = 3
    /\ \/ /\ clIn.zoomLevel = 16
          /\ clIn.config.MaxClusterSize = 100
          /\ LocationOf(1) = [lat |-> 0, lon |-> 0]
          /\ LocationOf(2) = [lat |-> 0, lon |-> 250]
          /\ LocationOf(3) = [lat |-> 0, lon |-> 100]
          /\ Len(clOut.clusters) > 0 /\ clOut.clusters[1].Hotspots = <<1, 3>>
       \/ /\ clIn.zoomLevel = 3
          /\ clIn.config.MaxClusterSize = 2
          /\ \A id \in 2..3 : calculateDistance(LocationOf(1), LocationOf(id)) <= 25000
          /\ Len(clOut.clusters) = 2
          /\ clOut.clusters[1].Hotspots = <<1, 2>> /\ clOut.clusters[2].Hotspots = <<3>>

-----------------------------------------------------------------------------
(* Properties of leaving and updating *)

\* the user who is an attendee of the hotspot now and not after the step
Leaver(id) ==
    CHOOSE u \in Range(mockHotspots[id].Attendees) : ~InSeq(u, mockHotspots'[id].Attendees)

\* the first attendee in join order other than u
EarliestOther(attendees, u) ==
    attendees[CHOOSE i \in 1..Len(attendees) :
                  attendees[i] # u /\ \A j \in 1..(i - 1) : attendees[j] = u]

RejectedUpdateUnchanged ==
    [][resp'.op = "update" /\ resp'.err # NoErr => mockHotspots' = mockHotspots]_vars

-----------------------------------------------------------------------------
(* Properties of the cache with respect to the request *)

\* the key under which the miss with the response r wrote its result
writtenKey(r) ==
    IF r.req.Clustering.Mode # "none" /\ r.TotalCount > r.req.Clustering.MinClusterSize
    THEN getClusterKey(r.req.Center, r.req.Radius, r.req.ZoomLevel)
    ELSE getRegionKey(r.req.Center, r.req.Radius)

\* what a miss of the request computes on the store and the index as they are
computedOnMiss(req, r) ==
    \E candidateIDs \in GetNearbyHotspotIDs(req.Center, req.Radius) :
    \E hotspots \in queryHotspotsOptimized(req, candidateIDs) :
        /\ r.TotalCount = Len(hotspots)
        /\ r.HasMore = (Len(hotspots) >= req.Pagination.Limit)
        /\ IF shouldCluster(req, hotspots)
           THEN /\ r.Hotspots = <<>>
                /\ \E keyOrder \in gridKeyOrders(hotspots, req.Clustering, req.ZoomLevel) :
                       r.Clusters = clusterHotspots(hotspots, req.Clustering, req.ZoomLevel,
                                                    keyOrder)
           ELSE r.Hotspots = hotspots /\ r.Clusters = <<>>

\* C29: the cache is transparent with respect to the request.  The result
\* of a search served from the cache is what the same request computes on
\* a miss against the same store, and a request is not served the result
\* another request cached unless the two have the same filters, pagination
\* and clustering configuration: a hit that directly follows the miss
\* which wrote the entry it reads is a hit of such a request.
CacheTransparency ==
    [][(resp'.op = "searchOptimized" /\ resp'.err = NoErr /\ resp'.CacheHit) =>
        /\ computedOnMiss(resp'.req, resp')
        /\ (/\ resp.op = "searchOptimized" /\ resp.err = NoErr /\ ~resp.CacheHit
            /\ "write" \notin resp.failed
            /\ writtenKey(resp) = lookupKey(resp'.req))
           => /\ resp'.req.Filters = resp.req.Filters
              /\ resp'.req.Pagination = resp.req.Pagination
              /\ resp'.req.Clustering = resp.req.Clustering]_vars

-----------------------------------------------------------------------------
(* Properties of concurrent joins *)

\* the users whose call to join the hotspot returned without an error
Joined(id) ==
    {u \in DOMAIN joins : joins[u].id = id /\ joins[u].pc = "done" /\ joins[u].err = NoErr}

\* C30: concurrent joins respect the capacity and the occupancy invariant.
\* Once every call to join a hotspot with a capacity has returned, the
\* hotspot has as many attendees as its occupancy says and no more than its
\* capacity, every user whose join succeeded is an attendee, and of the
\* calls that raced for the one free spot beside the creator at most one
\* succeeded.
ConcurrentJoins ==
    \A id \in DOMAIN mockHotspots :
        (/\ Running
         /\ mockHotspots[id].MaxCapacity > 0
         /\ \A u \in DOMAIN joins : joins[u].id = id => joins[u].pc = "done")
        => /\ mockHotspots[id].CurrentOccupancy = Len(mockHotspots[id].Attendees)
           /\ Len(mockHotspots[id].Attendees) <= mockHotspots[id].MaxCapacity
           /\ \A u \in Joined(id) : InSeq(u, mockHotspots[id].Attendees)
           /\ Cardinality(Joined(id)) <= mockHotspots[id].MaxCapacity - 1

====
